---------------------------- MODULE Spec2Model ----------------------------
(***************************************************************************)
(* Model of the Number System Converter PWA service worker (sw.js): the    *)
(* install / activate lifecycle handlers, the fetch listener with its      *)
(* fire-and-forget dynamic-cache write, and limitCacheSize.                *)
(*                                                                         *)
(* Strings that the code compares by prefix (request URLs against          *)
(* self.location.origin) are sequences of text fragments; the string is    *)
(* the concatenation of the fragments, so a prefix of fragments is a       *)
(* prefix of characters.  Cache partition names are <<version, suffix>>.   *)
(***************************************************************************)
EXTENDS Integers, Sequences, FiniteSets, TLC

(***************************************************************************)
(* Program constants (sw.js lines 6-23)                                    *)
(***************************************************************************)
CACHE_NAME == "number-converter-v1.0.0"

STATIC_CACHE_NAME == <<CACHE_NAME, "-static">>

DYNAMIC_CACHE_NAME == <<CACHE_NAME, "-dynamic">>

STATIC_FILES ==
    << "/", "/index.html", "/styles/main.css", "/js/converter.js",
       "/js/app.js", "/manifest.json", "/icons/icon-192x192.png",
       "/icons/icon-512x512.png" >>

\* The source sets 50; the model scales the capacity down so that the
\* partition can be driven past it.  Every formula below is stated in terms
\* of MAX_DYNAMIC_CACHE_SIZE, never of its value.
MAX_DYNAMIC_CACHE_SIZE == 1

(***************************************************************************)
(* Bounds of the model                                                     *)
(***************************************************************************)
\* fetch interceptions that may be in flight at the same time
MaxHandlers == 2

\* message events the worker receives
MaxMessages == 1

\* paste timers that may be pending at the same time
MaxPasteTimers == 1

\* length of the short texts typed into a field
MaxTextLen == 3

\* length of the texts typed key by key
MaxTyped == 1

\* input fields that may be marked as erroneous at the same time
MaxInputErrors == 1

(***************************************************************************)
(* Environment: origins, URLs, requests, responses                         *)
(***************************************************************************)
\* self.location.origin, as a string of one fragment
SelfOrigin == << "https://app.example" >>

\* an unrelated origin
CdnOrigin == << "https://cdn.example" >>

\* the origin "https://app.example.evil.net": another host whose text starts
\* with the text of SelfOrigin
LookalikeOrigin == << "https://app.example", ".evil.net" >>

DynamicPaths == { "/data/a", "/data/b" }

\* The serialized URL of a resource: origin text followed by the path.
Url(origin, path) == origin \o << path >>

\* The origin a URL really has: everything before its path fragment.
UrlOrigin(url) == SubSeq(url, 1, Len(url) - 1)

SameOrigin(url) == UrlOrigin(url) = SelfOrigin

\* String.prototype.startsWith
StartsWith(s, p) == Len(s) >= Len(p) /\ SubSeq(s, 1, Len(p)) = p

IndexUrl == Url(SelfOrigin, "/index.html")

NoRequest == [ method |-> "none", url |-> << >>, destination |-> "" ]

\* a page of the application that is not precached: its request is a
\* navigation (destination 'document')
NavigationPaths == { "/data/b" }

Requests ==
    { [ method |-> "GET", url |-> Url(SelfOrigin, p),
        destination |-> IF p \in NavigationPaths THEN "document" ELSE "" ]
        : p \in DynamicPaths }
    \cup
    { [ method |-> "GET", url |-> IndexUrl, destination |-> "document" ],
      [ method |-> "POST", url |-> Url(SelfOrigin, "/data/a"), destination |-> "" ],
      [ method |-> "GET", url |-> Url(CdnOrigin, "/data/a"), destination |-> "" ],
      [ method |-> "GET", url |-> Url(LookalikeOrigin, "/data/a"), destination |-> "" ] }

Response(status, type, url, body) ==
    [ status |-> status, type |-> type, url |-> url, body |-> body ]

\* no response settled yet
NoResponse == Response(0, "none", << >>, "")

\* the value `undefined` where a Response was expected
Undefined == Response(0, "undefined", << >>, "")

\* What the network can answer for a request that reaches it: a same-origin
\* response has type 'basic', a cross-origin one 'cors' or 'opaque'.
NetworkResponses(req) ==
    IF SameOrigin(req.url)
    THEN { Response(200, "basic", req.url, "v1"),
           Response(404, "basic", req.url, "v1") }
    ELSE { Response(200, "cors", req.url, "v1"),
           Response(0, "opaque", req.url, "v1") }


(***************************************************************************)
(* Cache partitions already on the origin when this worker is installed    *)
(***************************************************************************)
OLD_CACHE_NAME == "number-converter-v0.9.0"

OldStatic == << OLD_CACHE_NAME, "-static" >>

\* a partition of the origin that carries no version of this application
OtherCache == << "user-settings", "" >>

OldNames == << OldStatic, OtherCache >>

AllNames == { STATIC_CACHE_NAME, DYNAMIC_CACHE_NAME, OldStatic, OtherCache }

Entry(url, resp) == [ key |-> url, resp |-> resp ]

\* what a partition left behind by the previous version holds
OldContent(name) ==
    IF name = OldStatic
    THEN << Entry(IndexUrl, Response(200, "basic", IndexUrl, "old")) >>
    ELSE << >>

(***************************************************************************)
(* CacheStorage and Cache operations, as the platform defines them.        *)
(* caches.open and cache.keys are taken to succeed; cache.addAll,          *)
(* cache.put, caches.delete and fetch may reject.                          *)
(***************************************************************************)
Has(list, name) == \E i \in 1..Len(list) : list[i] = name

Remove(list, name) == SelectSeq(list, LAMBDA x : x # name)

\* caches.open(name): creates the partition when it does not exist
OpenCache(list, name) == IF Has(list, name) THEN list ELSE Append(list, name)

\* cache.keys(): request keys in insertion order
Keys(entries) == [ i \in 1..Len(entries) |-> entries[i].key ]

HasKey(entries, url) == \E i \in 1..Len(entries) : entries[i].key = url

\* cache.put(request, response): replaces an entry of the same key; the new
\* entry is the youngest
Put(entries, url, resp) ==
    Append(SelectSeq(entries, LAMBDA e : e.key # url), Entry(url, resp))

\* cache.delete(request): no-op when the key is absent
Delete(entries, url) == SelectSeq(entries, LAMBDA e : e.key # url)

\* cache.match(request)
MatchIn(entries, url) ==
    IF HasKey(entries, url)
    THEN entries[CHOOSE i \in 1..Len(entries) : entries[i].key = url].resp
    ELSE Undefined

\* caches.match(request): the partitions are searched in creation order
CachesMatch(list, st, url) ==
    LET hits == { i \in 1..Len(list) : HasKey(st[list[i]], url) }
    IN  IF hits = {}
        THEN Undefined
        ELSE MatchIn(st[list[CHOOSE i \in hits : \A j \in hits : i <= j]], url)

RECURSIVE AddAll(_, _, _)
\* cache.addAll(paths) once every fetch has succeeded: one entry per path
AddAll(entries, paths, k) ==
    IF k > Len(paths)
    THEN entries
    ELSE AddAll(Put(entries, Url(SelfOrigin, paths[k]),
                    Response(200, "basic", Url(SelfOrigin, paths[k]), "v1")),
                paths, k + 1)

(***************************************************************************)
(* Numbers of the converter page (src/js/converter.js).  A JavaScript      *)
(* Number that holds a non-negative integer is written as its bits, most   *)
(* significant first, without leading zeros (zero is the empty sequence),  *)
(* so that a value keeps every bit it has in the program.  Decimal         *)
(* arithmetic is done on groups of 12 bits.                                *)
(***************************************************************************)
\* bits of the significand of a Number (IEEE 754 binary64)
SIGNIFICAND_BITS == 53

\* Number.MAX_VALUE is below 2^MAX_VALUE_BITS (IEEE 754 binary64): an
\* integer that rounds to more bits has the Number value Infinity
MAX_VALUE_BITS == 1024

\* the Number values that are no integers, written apart from every sequence
\* of bits
Infinity == << 2 >>

NaN == << 3 >>

\* F of the value of e, with e evaluated a single time
Once(F(_), e) == CHOOSE r \in { F(v) : v \in { e } } : TRUE

\* the sequence s with every element evaluated
Elements(s) == s \o << >>

Zeros(n) == [ k \in 1..n |-> 0 ]

\* a sequence without its leading zeros
StripZeros(x) ==
    Once(LAMBDA v :
             IF \A k \in 1..Len(v) : v[k] = 0
             THEN << >>
             ELSE SubSeq(v, CHOOSE k \in 1..Len(v) :
                                v[k] # 0 /\ \A j \in 1..(k - 1) : v[j] = 0, Len(v)),
         Elements(x))

\* the bits of the digit values ds, each digit w bits wide
Ungroup(ds, w) ==
    Once(LAMBDA v :
             StripZeros([ p \in 1..(w * Len(v)) |->
                            (v[((p - 1) \div w) + 1] \div 2^(w - 1 - ((p - 1) % w))) % 2 ]),
         Elements(ds))

\* the natural number written by a few bits
ValueOf(bs) ==
    Once(LAMBDA v :
             LET val[k \in 0..Len(v)] == IF k = 0 THEN 0 ELSE 2 * val[k - 1] + v[k]
             IN  val[Len(v)],
         Elements(bs))

\* the bits x cut into groups of w bits from the right, as digit values
Group(x, w) ==
    Once(LAMBDA padded :
             Elements([ g \in 1..(Len(padded) \div w) |->
                          ValueOf(SubSeq(padded, w * (g - 1) + 1, w * g)) ]),
         Once(LAMBDA v : Zeros((w - (Len(v) % w)) % w) \o v, Elements(x)))

RECURSIVE MulAddFrom(_, _, _, _)
\* the groups 1..k of x times m, plus c
MulAddFrom(x, m, k, c) ==
    IF k = 0
    THEN IF c = 0 THEN << >> ELSE << c >>
    ELSE Once(LAMBDA t : Append(MulAddFrom(x, m, k - 1, t \div 2^12), t % 2^12),
              x[k] * m + c)

\* x * m + c for 12-bit groups x and small naturals m >= 1 and c
MulAdd(x, m, c) == Once(LAMBDA v : MulAddFrom(v, m, Len(v), c), Elements(x))

RECURSIVE HornerFrom(_, _, _, _)
\* acc * radix^n + the integer of the digits k.. of digits
HornerFrom(digits, radix, k, acc) ==
    IF k > Len(digits)
    THEN acc
    ELSE Once(LAMBDA a : HornerFrom(digits, radix, k + 1, a),
              MulAdd(acc, radix, digits[k]))

\* the 12-bit groups of the integer that digit values denote in radix
Horner(digits, radix) ==
    Once(LAMBDA v : HornerFrom(v, radix, 1, << >>), Elements(digits))

\* the mathematical integer that a sequence of digit values denotes
MathInt(digits, radix) ==
    IF radix = 2 THEN StripZeros(digits)
    ELSE IF radix = 8 THEN Ungroup(digits, 3)
    ELSE IF radix = 16 THEN Ungroup(digits, 4)
    ELSE Ungroup(Horner(digits, radix), 12)

\* top + 1 for bits top
Successor(top) ==
    Once(LAMBDA v :
             IF \A k \in 1..Len(v) : v[k] = 1
             THEN << 1 >> \o Zeros(Len(v))
             ELSE LET z == CHOOSE k \in 1..Len(v) :
                               v[k] = 0 /\ \A j \in (k + 1)..Len(v) : v[j] = 1
                  IN  SubSeq(v, 1, z - 1) \o << 1 >> \o Zeros(Len(v) - z),
         Elements(top))

\* the Number nearest to an integer: round to SIGNIFICAND_BITS significant
\* bits, ties to the even significand
ToNumber(x) ==
    Once(LAMBDA v :
             IF Len(v) <= SIGNIFICAND_BITS
             THEN v
             ELSE LET top == SubSeq(v, 1, SIGNIFICAND_BITS)
                      sticky == \E k \in (SIGNIFICAND_BITS + 2)..Len(v) : v[k] = 1
                      up == v[SIGNIFICAND_BITS + 1] = 1
                                /\ (sticky \/ v[SIGNIFICAND_BITS] = 1)
                      rounded == (IF up THEN Successor(top) ELSE top)
                                     \o Zeros(Len(v) - SIGNIFICAND_BITS)
                  IN  IF Len(rounded) > MAX_VALUE_BITS THEN Infinity ELSE rounded,
         Elements(x))

RECURSIVE DivModFrom(_, _, _, _, _)
\* long division of 12-bit groups x by a small d, from group k on, with the
\* quotient groups q found so far and the running remainder r
DivModFrom(x, d, k, q, r) ==
    IF k > Len(x)
    THEN [ q |-> StripZeros(q), r |-> r ]
    ELSE Once(LAMBDA t : Once(LAMBDA qt : DivModFrom(x, d, k + 1, qt, t % d),
                              Append(q, t \div d)),
              2^12 * r + x[k])

RECURSIVE DecimalDigitsOf(_)
\* the decimal digit values of 12-bit groups, most significant first
DecimalDigitsOf(groups) ==
    IF groups = << >>
    THEN << >>
    ELSE Once(LAMBDA dm : Append(DecimalDigitsOf(dm.q), dm.r),
              DivModFrom(groups, 10, 1, << >>, 0))

DecimalDigits(groups) == Once(DecimalDigitsOf, Elements(groups))

\* the digit values of the integer x in radix (none for zero)
Digits(x, radix) ==
    IF radix = 2 THEN Elements(x)
    ELSE IF radix = 8 THEN Group(x, 3)
    ELSE IF radix = 16 THEN Group(x, 4)
    ELSE DecimalDigits(Group(x, 12))

\* the n leading digits of the decimal digits ds, followed by zeros
FloorAt(ds, n) == SubSeq(ds, 1, n) \o Zeros(Len(ds) - n)

\* the next multiple of 10^(Len(ds)-n) above FloorAt(ds, n)
CeilAt(ds, n) ==
    DecimalDigits(MulAdd(Horner(SubSeq(ds, 1, n), 10), 1, 1)) \o Zeros(Len(ds) - n)

\* -1, 0, 1: the digits after the n-th against half a unit of the n-th
TailAgainstHalf(ds, n) ==
    Once(LAMBDA tail :
             IF tail = << >> \/ tail[1] < 5 THEN -1
             ELSE IF tail[1] > 5 \/ \E j \in 2..Len(tail) : tail[j] # 0 THEN 1
             ELSE 0,
         SubSeq(ds, n + 1, Len(ds)))

\* the shortest of the decimals s * 10^e that convert back to x, given the
\* digits exact of x and the number least of digits of s: the closest such
\* s, the even one at a tie
ShortestOf(x, exact, least) ==
    LET Back(c) == ToNumber(MathInt(c, 10)) = x
        half == TailAgainstHalf(exact, least)
    IN  IF ~ Back(CeilAt(exact, least)) THEN FloorAt(exact, least)
        ELSE IF ~ Back(FloorAt(exact, least)) THEN CeilAt(exact, least)
        ELSE IF half < 0 THEN FloorAt(exact, least)
        ELSE IF half > 0 THEN CeilAt(exact, least)
        ELSE IF exact[least] % 2 = 0 THEN FloorAt(exact, least)
        ELSE CeilAt(exact, least)

\* Number::toString(x, 10) for an integer below 10^21: the digits of the
\* shortest decimal s * 10^e that converts back to x, followed by e zeros.
\* An integer of at most SIGNIFICAND_BITS bits has no shorter decimal than
\* its own digits with their trailing zeros.
ShortestDecimal(x) ==
    Once(LAMBDA v :
        Once(LAMBDA exact :
            IF Len(v) <= SIGNIFICAND_BITS
            THEN exact
            ELSE Once(LAMBDA lengths :
                          Once(LAMBDA least : Elements(ShortestOf(v, exact, least)),
                               CHOOSE a \in lengths : \A b \in lengths : a <= b),
                      { n \in 1..Len(exact) :
                          \/ ToNumber(MathInt(FloorAt(exact, n), 10)) = v
                          \/ ToNumber(MathInt(CeilAt(exact, n), 10)) = v }),
            Digits(v, 10)),
        Elements(x))

(***************************************************************************)
(* Text of the converter page: a string is the sequence of its characters  *)
(***************************************************************************)
\* the radix tags, in the order of Object.entries(this.inputs)
Types == << "binary", "octal", "decimal", "hexadecimal" >>

TypeSet == { Types[k] : k \in 1..Len(Types) }

\* the radix handed to parseInt and toString for each tag
Radix(type) ==
    IF type = "binary" THEN 2
    ELSE IF type = "octal" THEN 8
    ELSE IF type = "decimal" THEN 10
    ELSE 16

\* the digits Number.prototype.toString writes
DigitChars ==
    << "0", "1", "2", "3", "4", "5", "6", "7", "8", "9", "a", "b", "c", "d", "e", "f" >>

LowerCase ==
    << "a", "b", "c", "d", "e", "f", "g", "h", "i", "j", "k", "l", "m",
       "n", "o", "p", "q", "r", "s", "t", "u", "v", "w", "x", "y", "z" >>

UpperCase ==
    << "A", "B", "C", "D", "E", "F", "G", "H", "I", "J", "K", "L", "M",
       "N", "O", "P", "Q", "R", "S", "T", "U", "V", "W", "X", "Y", "Z" >>

WhiteSpace == { " ", "\t" }

\* String.prototype.trim
Trim(s) ==
    Once(LAMBDA v :
             IF \A k \in 1..Len(v) : v[k] \in WhiteSpace
             THEN << >>
             ELSE SubSeq(v,
                         CHOOSE k \in 1..Len(v) :
                             v[k] \notin WhiteSpace
                                 /\ \A j \in 1..(k - 1) : v[j] \in WhiteSpace,
                         CHOOSE k \in 1..Len(v) :
                             v[k] \notin WhiteSpace
                                 /\ \A j \in (k + 1)..Len(v) : v[j] \in WhiteSpace),
         Elements(s))

\* String.prototype.toUpperCase
ToUpperCase(s) ==
    Once(LAMBDA v :
             Elements([ k \in 1..Len(v) |->
                          IF \E n \in 1..Len(LowerCase) : LowerCase[n] = v[k]
                          THEN UpperCase[CHOOSE n \in 1..Len(LowerCase) : LowerCase[n] = v[k]]
                          ELSE v[k] ]),
         Elements(s))

\* regular expressions of which the octal one accepts every decimal digit
Alphabet_OctalTakesNine(type) ==
    IF type = "binary" THEN { "0", "1" }
    ELSE IF type \in { "octal", "decimal" } THEN { DigitChars[k] : k \in 1..10 }
    ELSE { DigitChars[k] : k \in 1..16 } \cup { ToUpperCase(DigitChars)[k] : k \in 11..16 }

\* the characters that the regular expression of each case accepts (lines
\* 121, 126, 131, 136; the hexadecimal one carries the flag i)
Alphabet(type) ==
    IF type = "binary" THEN { "0", "1" }
    ELSE IF type = "octal" THEN { DigitChars[k] : k \in 1..8 }
    ELSE IF type = "decimal" THEN { DigitChars[k] : k \in 1..10 }
    ELSE { DigitChars[k] : k \in 1..16 } \cup { ToUpperCase(DigitChars)[k] : k \in 11..16 }

\* /^[...]+$/.test(value)
Matches(type, value) ==
    value # << >> /\ \A k \in 1..Len(value) : value[k] \in Alphabet(type)

\* the value of a digit character, in either case
DigitValue(ch) ==
    (CHOOSE k \in 1..Len(DigitChars) : ToUpperCase(DigitChars)[k] = ToUpperCase(<< ch >>)[1]) - 1

\* parseInt(value, radix) of a string of digits of that radix; NaN when
\* there is no digit
ParseInt(value, radix) ==
    Once(LAMBDA v :
             IF v = << >>
             THEN NaN
             ELSE ToNumber(MathInt([ k \in 1..Len(v) |-> DigitValue(v[k]) ], radix)),
         Elements(value))

\* Number.prototype.toString(radix) of a non-negative integer, of Infinity
\* and of NaN
NumberToString(x, radix) ==
    Once(LAMBDA v :
             IF v = Infinity
             THEN << "I", "n", "f", "i", "n", "i", "t", "y" >>
             ELSE IF v = NaN
             THEN << "N", "a", "N" >>
             ELSE IF v = << >>
             THEN << "0" >>
             ELSE Once(LAMBDA ds : Elements([ k \in 1..Len(ds) |-> DigitChars[ds[k] + 1] ]),
                       IF radix = 10 THEN ShortestDecimal(v) ELSE Digits(v, radix)),
         Elements(x))

\* textContent of a result field that shows no value (line 208)
Placeholder == << "-" >>

\* textContent of a result field after a failed conversion (line 186)
ErrorMarker == << "E", "r", "r", "o", "r" >>

\* this.currentValues when there is nothing to copy
Null == [ binary |-> << >>, octal |-> << >>, decimal |-> << >>, hexadecimal |-> << >> ]

\* updateResults (lines 163-179): the four renderings of decimalValue
Conversions(decimalValue) ==
    Once(LAMBDA v :
             [ binary |-> NumberToString(v, 2),
               octal |-> NumberToString(v, 8),
               decimal |-> NumberToString(v, 10),
               hexadecimal |-> ToUpperCase(NumberToString(v, 16)) ],
         decimalValue)

\* a check that takes zero for an invalid number as well: !decimalValue
InvalidNumber_RejectsZero(decimalValue) == decimalValue = NaN \/ decimalValue = << >>

\* line 145: isNaN(decimalValue) || decimalValue < 0; a Number written as
\* its bits carries no sign, and parseInt gives none to a text of digits
InvalidNumber(decimalValue) == decimalValue = NaN

\* a handleInput that hands the raw text of the field to the checks
Cleaned_NoTrim(value) == ToUpperCase(value)

\* line 107
Cleaned(value) == ToUpperCase(Trim(value))

\* a handleInput that hands the empty text to the checks of its radix
HandleInput_EmptyIsError(sourceType, value) ==
    Once(LAMBDA cleaned :
             IF ~ Matches(sourceType, cleaned)
             THEN [ results |-> [ t \in TypeSet |-> ErrorMarker ],
                    errorClass |-> TRUE, currentValues |-> Null ]
             ELSE Once(LAMBDA decimalValue :
                           IF InvalidNumber(decimalValue)
                           THEN [ results |-> [ t \in TypeSet |-> ErrorMarker ],
                                  errorClass |-> TRUE, currentValues |-> Null ]
                           ELSE Once(LAMBDA conversions :
                                         [ results |-> conversions, errorClass |-> FALSE,
                                           currentValues |-> conversions ],
                                     Conversions(decimalValue)),
                       ParseInt(cleaned, Radix(sourceType))),
         Cleaned(value))

\* handleInput(sourceType, value) (lines 105-156): what the result fields
\* show and what this.currentValues holds when it returns
HandleInput(sourceType, value) ==
    Once(LAMBDA cleaned :
             IF cleaned = << >>
             THEN [ results |-> [ t \in TypeSet |-> Placeholder ],
                    errorClass |-> FALSE, currentValues |-> Null ]
             ELSE IF ~ Matches(sourceType, cleaned)
             THEN [ results |-> [ t \in TypeSet |-> ErrorMarker ],
                    errorClass |-> TRUE, currentValues |-> Null ]
             ELSE Once(LAMBDA decimalValue :
                           IF InvalidNumber(decimalValue)
                           THEN [ results |-> [ t \in TypeSet |-> ErrorMarker ],
                                  errorClass |-> TRUE, currentValues |-> Null ]
                           ELSE Once(LAMBDA conversions :
                                         [ results |-> conversions, errorClass |-> FALSE,
                                           currentValues |-> conversions ],
                                     Conversions(decimalValue)),
                       ParseInt(cleaned, Radix(sourceType))),
         Cleaned(value))

(***************************************************************************)
(* State                                                                   *)
(***************************************************************************)
VARIABLES
    swState,            \* lifecycle state of the worker of version CACHE_NAME
    ipc,                \* position of the install handler's promise chain
    precache,           \* "none" | "ok" | "failed": outcome of cache.addAll
    skipWaitingCalled,  \* self.skipWaiting() has been called
    apc,                \* position of the activate handler's promise chain
    aPending,           \* caches.delete calls of the purge still in flight
    aFailed,            \* a caches.delete of the purge has rejected
    claimed,            \* self.clients.claim() has been called
    purged,             \* a caches.delete of the purge has removed a partition
    cacheList,          \* CacheStorage: partition names in creation order
    store,              \* content of each partition: entries in insertion order
    h,                  \* the fetch interceptions, one record per slot
    msgs,               \* the message events received, with their ports
    inputs,             \* value of the four input fields
    results,            \* textContent of the four result fields
    errorClass,         \* the result fields carry the class 'error'
    currentValues,      \* this.currentValues
    handled,            \* arguments of the latest handleInput call
    pasteTimers,        \* fields with a pending timer of the paste listener
    notification,       \* textContent of the copy notification, "" when absent
    copyThrew,          \* the latest copyResults ended in an uncaught error
    inputErrors,        \* the input fields that carry the class 'error'
    converter,          \* "pending" | "created" | "failed": this.converter of
                        \* the application is non-null when "created"
    shortcuts,          \* the keydown listener of the application is registered
    called,             \* "clearAll" | "copyResults" | "other": the method of
                        \* the converter that the latest listener called
    writeText,          \* text that the latest listener handed to
                        \* navigator.clipboard.writeText
    keydown,            \* the keydown event that the latest listener got
    signed              \* arguments and result of the latest call of
                        \* NumberSystemUtils.toSignedBinary

vars == << swState, ipc, precache, skipWaitingCalled, apc, aPending, aFailed,
           claimed, purged, cacheList, store, h, msgs,
           inputs, results, errorClass, currentValues, handled, pasteTimers,
           notification, copyThrew, inputErrors, converter, shortcuts, called,
           writeText, keydown, signed >>

converterVars == << inputs, results, errorClass, currentValues, handled, pasteTimers,
                    notification, copyThrew, inputErrors, converter, shortcuts, called,
                    writeText, keydown >>

\* what a call of a function of NumberSystemUtils leaves behind
utilsVars == << signed >>

\* what the install, activate and fetch listeners never touch
otherVars == << msgs, converterVars, utilsVars >>

lifecycleVars == << swState, ipc, precache, skipWaitingCalled, apc, aPending,
                    aFailed, claimed, purged >>

\* the worker's state, which the page's listeners never touch
workerVars == << lifecycleVars, cacheList, store, h, msgs >>

Slots == 1..MaxHandlers

\* the arguments of no handleInput call
NoCall == [ sourceType |-> "", value |-> << >> ]

\* no text handed to navigator.clipboard.writeText
NoText == << >>

\* toSignedBinary has not been called
NoSigned == [ decimal |-> 0, bits |-> 0, result |-> << >> ]

\* no keydown event
NoKey == [ key |-> "", modifier |-> FALSE, inInput |-> FALSE, prevented |-> FALSE ]

\* the page once the constructor has run (lines 7-11): clearAll()
InitialPage ==
    /\ inputs = [ t \in TypeSet |-> << >> ]
    /\ results = [ t \in TypeSet |-> Placeholder ]
    /\ errorClass = FALSE
    /\ currentValues = Null
    /\ handled = NoCall
    /\ pasteTimers = {}
    /\ notification = ""
    /\ copyThrew = FALSE
    /\ inputErrors = {}
    /\ called = "clearAll"
    /\ writeText = NoText
    /\ keydown = NoKey
    /\ signed = NoSigned

IdleHandler ==
    [ pc |-> "idle", req |-> NoRequest, resp |-> NoResponse, net |-> NoResponse,
      log |-> << >>, wpc |-> "none", putpc |-> "none", lpc |-> "none",
      lkeys |-> << >> ]

\* the subsequences of OldNames: any set of earlier partitions may exist
InitialCacheLists ==
    { SelectSeq(OldNames, LAMBDA n : n \in S) : S \in SUBSET { OldStatic, OtherCache } }

Init ==
    /\ swState = "parsed"
    /\ ipc = "none"
    /\ precache = "none"
    /\ skipWaitingCalled = FALSE
    /\ apc = "none"
    /\ aPending = {}
    /\ aFailed = FALSE
    /\ claimed = FALSE
    /\ purged = FALSE
    /\ cacheList \in InitialCacheLists
    /\ store = [ n \in AllNames |-> IF Has(cacheList, n) THEN OldContent(n) ELSE << >> ]
    /\ h = [ i \in Slots |-> IdleHandler ]
    /\ msgs = << >>
    /\ InitialPage
    /\ converter = "created"
    /\ shortcuts = TRUE

(***************************************************************************)
(* install listener (sw.js lines 28-44)                                    *)
(***************************************************************************)
\* the platform dispatches the install event
InstallEvent ==
    /\ swState = "parsed"
    /\ swState' = "installing"
    /\ ipc' = "open"
    /\ UNCHANGED << precache, skipWaitingCalled, apc, aPending, aFailed, claimed, purged,
                    cacheList, store, h, otherVars >>

\* caches.open(STATIC_CACHE_NAME) settles
InstallOpen ==
    /\ swState = "installing"
    /\ ipc = "open"
    /\ cacheList' = OpenCache(cacheList, STATIC_CACHE_NAME)
    /\ ipc' = "addAll"
    /\ UNCHANGED << swState, precache, skipWaitingCalled, apc, aPending, aFailed,
                    claimed, purged, store, h, otherVars >>

\* cache.addAll(STATIC_FILES) settles; bad = 0: every asset was fetched,
\* bad = k: the fetch of STATIC_FILES[k] failed and nothing is stored
InstallAddAll(bad) ==
    /\ swState = "installing"
    /\ ipc = "addAll"
    /\ IF bad = 0
       THEN /\ store' = [ store EXCEPT ![STATIC_CACHE_NAME] =
                            IF Has(cacheList, STATIC_CACHE_NAME)
                            THEN AddAll(@, STATIC_FILES, 1) ELSE @ ]
            /\ precache' = "ok"
            /\ ipc' = "skipWaiting"
       ELSE /\ store' = store
            /\ precache' = "failed"
            /\ ipc' = "catch"
    /\ UNCHANGED << swState, skipWaitingCalled, apc, aPending, aFailed, claimed, purged,
                    cacheList, h, otherVars >>

\* .then(() => self.skipWaiting())
InstallSkipWaiting ==
    /\ swState = "installing"
    /\ ipc = "skipWaiting"
    /\ skipWaitingCalled' = TRUE
    /\ ipc' = "resolved"
    /\ UNCHANGED << swState, precache, apc, aPending, aFailed, claimed, purged, cacheList,
                    store, h, otherVars >>

\* an install chain that calls self.skipWaiting() in its .catch as well
InstallCatch_SkipsWaiting ==
    /\ swState = "installing"
    /\ ipc = "catch"
    /\ ipc' = "resolved"
    /\ skipWaitingCalled' = TRUE
    /\ UNCHANGED << swState, precache, apc, aPending, aFailed,
                    claimed, purged, cacheList, store, h, otherVars >>

\* .catch((error) => console.error(...)): the handler returns normally, so
\* the promise handed to event.waitUntil is fulfilled
InstallCatch ==
    /\ swState = "installing"
    /\ ipc = "catch"
    /\ ipc' = "resolved"
    /\ UNCHANGED << swState, precache, skipWaitingCalled, apc, aPending, aFailed,
                    claimed, purged, cacheList, store, h, otherVars >>

\* The platform ends the install phase when the promise handed to
\* event.waitUntil settles: fulfilled -> installed, rejected -> redundant.
InstallSettled ==
    /\ swState = "installing"
    /\ ipc \in { "resolved", "rejected" }
    /\ swState' = IF ipc = "resolved" THEN "installed" ELSE "redundant"
    /\ UNCHANGED << ipc, precache, skipWaitingCalled, apc, aPending, aFailed,
                    claimed, purged, cacheList, store, h, otherVars >>

(***************************************************************************)
(* activate listener (sw.js lines 49-71)                                   *)
(***************************************************************************)
\* a purge that recognizes stale partitions by the old version string only
IsStale_OldVersionOnly(cacheName) == cacheName[1] = OLD_CACHE_NAME

IsStale(cacheName) ==
    cacheName # STATIC_CACHE_NAME /\ cacheName # DYNAMIC_CACHE_NAME

StaleIn(list) == { list[i] : i \in { j \in 1..Len(list) : IsStale(list[j]) } }

\* the platform dispatches the activate event to an installed worker
ActivateEvent ==
    /\ swState = "installed"
    /\ swState' = "activating"
    /\ apc' = "keys"
    /\ UNCHANGED << ipc, precache, skipWaitingCalled, aPending, aFailed, claimed, purged,
                    cacheList, store, h, otherVars >>

\* a purge whose .then does not return Promise.all(...): the deletions are
\* issued and clients.claim() follows without waiting for them
ActivateKeys_ClaimWithoutWaiting ==
    /\ swState = "activating"
    /\ apc = "keys"
    /\ aPending' = StaleIn(cacheList)
    /\ apc' = "claim"
    /\ UNCHANGED << swState, ipc, precache, skipWaitingCalled, aFailed, claimed, purged,
                    cacheList, store, h, otherVars >>

\* caches.keys() settles and the map issues one caches.delete per stale
\* name; Promise.all of no pending deletion is fulfilled at once
ActivateKeys ==
    /\ swState = "activating"
    /\ apc = "keys"
    /\ aPending' = StaleIn(cacheList)
    /\ apc' = IF StaleIn(cacheList) = {} THEN "claim" ELSE "deleting"
    /\ UNCHANGED << swState, ipc, precache, skipWaitingCalled, aFailed, claimed, purged,
                    cacheList, store, h, otherVars >>

\* one caches.delete(cacheName) of the purge settles.  Promise.all is
\* fulfilled when the last one is, and rejects as soon as one rejects (the
\* other deletions stay in flight).
ActivateDelete(cacheName, ok) ==
    /\ cacheName \in aPending
    /\ aPending' = aPending \ { cacheName }
    /\ IF ok
       THEN /\ cacheList' = Remove(cacheList, cacheName)
            /\ store' = [ store EXCEPT ![cacheName] = << >> ]
            /\ purged' = (purged \/ Has(cacheList, cacheName))
            /\ aFailed' = aFailed
            /\ apc' = IF apc = "deleting" /\ aPending' = {} THEN "claim" ELSE apc
       ELSE /\ cacheList' = cacheList
            /\ store' = store
            /\ purged' = purged
            /\ aFailed' = TRUE
            /\ apc' = IF apc = "deleting" THEN "catch" ELSE apc
    /\ UNCHANGED << swState, ipc, precache, skipWaitingCalled, claimed, h, otherVars >>

\* .then(() => self.clients.claim())
ActivateClaim ==
    /\ swState = "activating"
    /\ apc = "claim"
    /\ claimed' = TRUE
    /\ apc' = "resolved"
    /\ UNCHANGED << swState, ipc, precache, skipWaitingCalled, aPending, aFailed, purged,
                    cacheList, store, h, otherVars >>

\* .catch((error) => console.error(...))
ActivateCatch ==
    /\ swState = "activating"
    /\ apc = "catch"
    /\ apc' = "resolved"
    /\ UNCHANGED << swState, ipc, precache, skipWaitingCalled, aPending, aFailed,
                    claimed, purged, cacheList, store, h, otherVars >>

\* the platform ends the activate phase when the promise handed to
\* event.waitUntil settles
ActivateSettled ==
    /\ swState = "activating"
    /\ apc = "resolved"
    /\ swState' = "activated"
    /\ UNCHANGED << ipc, precache, skipWaitingCalled, apc, aPending, aFailed,
                    claimed, purged, cacheList, store, h, otherVars >>

(***************************************************************************)
(* fetch listener (sw.js lines 76-135)                                     *)
(***************************************************************************)
\* lines 78-85: the two early returns that leave a request unintercepted
Intercepts(req) ==
    /\ req.method = "GET"
    /\ StartsWith(req.url, SelfOrigin)

\* a validity check that forgets the response type
ShouldCache_StatusOnly(resp) == ~ (resp = Undefined \/ resp.status # 200)

\* line 99, negated: the response is cloned into the dynamic partition
ShouldCache(resp) ==
    ~ (resp = Undefined \/ resp.status # 200 \/ resp.type # "basic")

\* lines 125-131
OfflineResponse == Response(408, "text/plain", << >>, "Offline - This resource is not available")

\* a slot whose interception and background tasks have all ended
SlotFree(s) ==
    /\ s.pc \in { "idle", "unintercepted", "done" }
    /\ s.wpc \in { "none", "done" }
    /\ s.putpc \in { "none", "done", "failed" }
    /\ s.lpc \in { "none", "done", "threw" }

\* The platform dispatches a fetch event to the active worker; the listener
\* either returns early or calls event.respondWith(caches.match(...)).  The
\* slots are interchangeable, so a new interception takes the lowest free one.
FetchEvent(i, req) ==
    /\ swState = "activated"
    /\ SlotFree(h[i])
    /\ \A j \in Slots : j < i => ~ SlotFree(h[j])
    /\ h' = [ h EXCEPT ![i] =
                [ IdleHandler EXCEPT
                    !.req = req,
                    !.pc = IF Intercepts(req) THEN "match" ELSE "unintercepted",
                    !.log = IF Intercepts(req) THEN << "respondWith" >> ELSE << >> ] ]
    /\ UNCHANGED << lifecycleVars, cacheList, store, otherVars >>

\* a lookup that issues fetch(event.request) whether or not the cache matched
CacheLookup_AlwaysFetches(i) ==
    /\ h[i].pc = "match"
    /\ LET cachedResponse == CachesMatch(cacheList, store, h[i].req.url)
       IN  h' = [ h EXCEPT ![i] =
                    IF cachedResponse # Undefined
                    THEN [ @ EXCEPT !.pc = "network", !.resp = cachedResponse,
                                    !.log = @ \o << "match", "hit", "fetch" >> ]
                    ELSE [ @ EXCEPT !.pc = "network",
                                    !.log = @ \o << "match", "miss", "fetch" >> ] ]
    /\ UNCHANGED << lifecycleVars, cacheList, store, otherVars >>

\* caches.match(event.request) settles: a hit is returned, a miss issues
\* fetch(event.request)
CacheLookup(i) ==
    /\ h[i].pc = "match"
    /\ LET cachedResponse == CachesMatch(cacheList, store, h[i].req.url)
       IN  h' = [ h EXCEPT ![i] =
                    IF cachedResponse # Undefined
                    THEN [ @ EXCEPT !.pc = "done", !.resp = cachedResponse,
                                    !.log = @ \o << "match", "hit" >> ]
                    ELSE [ @ EXCEPT !.pc = "network",
                                    !.log = @ \o << "match", "miss", "fetch" >> ] ]
    /\ UNCHANGED << lifecycleVars, cacheList, store, otherVars >>

\* a handler that returns the promise of the cache write instead of the
\* network response: the caller gets nothing until the write has settled
NetworkResolve_AwaitsWrite(i, networkResponse) ==
    /\ h[i].pc = "network"
    /\ networkResponse \in NetworkResponses(h[i].req)
    /\ h' = [ h EXCEPT ![i] =
                IF ShouldCache(networkResponse)
                THEN [ @ EXCEPT !.pc = "done", !.resp = Undefined,
                                !.net = networkResponse, !.wpc = "open",
                                !.log = @ \o << "ok", "write" >> ]
                ELSE [ @ EXCEPT !.pc = "done", !.resp = networkResponse,
                                !.net = networkResponse,
                                !.log = Append(@, "ok") ] ]
    /\ UNCHANGED << lifecycleVars, cacheList, store, otherVars >>

\* fetch(event.request) is fulfilled with networkResponse: it is returned to
\* the caller; a cacheable one first starts caches.open(DYNAMIC_CACHE_NAME),
\* whose promise nobody waits for
NetworkResolve(i, networkResponse) ==
    /\ h[i].pc = "network"
    /\ networkResponse \in NetworkResponses(h[i].req)
    /\ h' = [ h EXCEPT ![i] =
                IF ShouldCache(networkResponse)
                THEN [ @ EXCEPT !.pc = "done", !.resp = networkResponse,
                                !.net = networkResponse, !.wpc = "open",
                                !.log = @ \o << "ok", "write" >> ]
                ELSE [ @ EXCEPT !.pc = "done", !.resp = networkResponse,
                                !.net = networkResponse,
                                !.log = Append(@, "ok") ] ]
    /\ UNCHANGED << lifecycleVars, cacheList, store, otherVars >>

\* a failure branch that answers every request with the placeholder
NetworkReject_AlwaysPlaceholder(i) ==
    /\ h[i].pc = "network"
    /\ h' = [ h EXCEPT ![i] =
                [ @ EXCEPT !.pc = "done", !.resp = OfflineResponse,
                           !.log = Append(@, "failed") ] ]
    /\ UNCHANGED << lifecycleVars, cacheList, store, otherVars >>

\* fetch(event.request) rejects (lines 118-132)
NetworkReject(i) ==
    /\ h[i].pc = "network"
    /\ h' = [ h EXCEPT ![i] =
                IF @.req.destination = "document"
                THEN [ @ EXCEPT !.pc = "fallback", !.log = Append(@, "failed") ]
                ELSE [ @ EXCEPT !.pc = "done", !.resp = OfflineResponse,
                                !.log = Append(@, "failed") ] ]
    /\ UNCHANGED << lifecycleVars, cacheList, store, otherVars >>

\* caches.match('/index.html') of the document fallback settles
Fallback(i) ==
    /\ h[i].pc = "fallback"
    /\ h' = [ h EXCEPT ![i] =
                [ @ EXCEPT !.pc = "done",
                           !.resp = CachesMatch(cacheList, store, IndexUrl) ] ]
    /\ UNCHANGED << lifecycleVars, cacheList, store, otherVars >>

\* caches.open(DYNAMIC_CACHE_NAME) of the cache write settles (lines
\* 107-111): the callback calls cache.put, whose promise is dropped, and
\* limitCacheSize, which starts its own caches.open.
WriteOpen(i) ==
    /\ h[i].wpc = "open"
    /\ cacheList' = OpenCache(cacheList, DYNAMIC_CACHE_NAME)
    /\ h' = [ h EXCEPT ![i] =
                [ @ EXCEPT !.wpc = "done", !.putpc = "pending", !.lpc = "open" ] ]
    /\ UNCHANGED << lifecycleVars, store, otherVars >>

\* a cache write that puts the response into the static partition
PutSettle_IntoStatic(i, ok) ==
    /\ h[i].putpc \in { "pending", "orphan" }
    /\ IF ok /\ h[i].putpc = "pending" /\ Has(cacheList, DYNAMIC_CACHE_NAME)
       THEN store' = [ store EXCEPT ![STATIC_CACHE_NAME] =
                         Put(@, h[i].req.url, h[i].net) ]
       ELSE store' = store
    /\ h' = [ h EXCEPT ![i] = [ @ EXCEPT !.putpc = IF ok THEN "done" ELSE "failed" ] ]
    /\ UNCHANGED << lifecycleVars, cacheList, otherVars >>

\* cache.put(event.request, responseToCache) settles
PutSettle(i, ok) ==
    /\ h[i].putpc \in { "pending", "orphan" }
    /\ IF ok /\ h[i].putpc = "pending" /\ Has(cacheList, DYNAMIC_CACHE_NAME)
       THEN store' = [ store EXCEPT ![DYNAMIC_CACHE_NAME] =
                         Put(@, h[i].req.url, h[i].net) ]
       ELSE store' = store
    /\ h' = [ h EXCEPT ![i] = [ @ EXCEPT !.putpc = IF ok THEN "done" ELSE "failed" ] ]
    /\ UNCHANGED << lifecycleVars, cacheList, otherVars >>

(***************************************************************************)
(* limitCacheSize (sw.js lines 220-234)                                    *)
(***************************************************************************)
\* the names bound where the callback of the second .then runs (lines
\* 225-230): its parameter, the function's parameters and the globals.  The
\* parameter `cache` of the first callback (line 222) is not among them.
KeysCallbackScope == { "keys", "cacheName", "maxSize", "caches", "limitCacheSize" }

\* Evaluating the callback of the second .then on `keys`: "done" when the
\* size is within maxSize, "delete" when cache.delete(keys[0]) is issued,
\* "ReferenceError" when evaluating `cache` throws (the .catch then logs).
KeysCallback(keys, maxSize) ==
    IF Len(keys) > maxSize
    THEN IF "cache" \in KeysCallbackScope THEN "delete" ELSE "ReferenceError"
    ELSE "done"

\* caches.open(cacheName) settles; the partition was opened by the cache
\* write just before, and is created again should it be gone
LimitOpen(i) ==
    /\ h[i].lpc = "open"
    /\ cacheList' = OpenCache(cacheList, DYNAMIC_CACHE_NAME)
    /\ h' = [ h EXCEPT ![i] = [ @ EXCEPT !.lpc = "keys" ] ]
    /\ UNCHANGED << lifecycleVars, store, otherVars >>

\* cache.keys() settles with the keys the partition holds at that moment
LimitKeys(i) ==
    /\ h[i].lpc = "keys"
    /\ h' = [ h EXCEPT ![i] =
                [ @ EXCEPT !.lpc = "check", !.lkeys = Keys(store[DYNAMIC_CACHE_NAME]) ] ]
    /\ UNCHANGED << lifecycleVars, cacheList, store, otherVars >>

\* The callback of the second .then runs on the listed keys (position
\* "check"); when it issued cache.delete(keys[0]), that deletion settles and
\* limitCacheSize is called again (position "delete").
LimitCheck(i) ==
    /\ h[i].lpc \in { "check", "delete" }
    /\ IF h[i].lpc = "check"
       THEN LET outcome == KeysCallback(h[i].lkeys, MAX_DYNAMIC_CACHE_SIZE)
            IN  /\ h' = [ h EXCEPT ![i] =
                            [ @ EXCEPT !.lpc = IF outcome = "done" THEN "done"
                                               ELSE IF outcome = "delete" THEN "delete"
                                               ELSE "threw",
                                       !.lkeys = IF outcome = "delete" THEN @ ELSE << >> ] ]
                /\ store' = store
       ELSE /\ store' = [ store EXCEPT ![DYNAMIC_CACHE_NAME] = Delete(@, h[i].lkeys[1]) ]
            /\ h' = [ h EXCEPT ![i] = [ @ EXCEPT !.lpc = "open", !.lkeys = << >> ] ]
    /\ UNCHANGED << lifecycleVars, cacheList, otherVars >>

(***************************************************************************)
(* message listener (sw.js lines 197-213) and clearAllCaches (240-247)     *)
(***************************************************************************)
\* a message posted without data: event.data is undefined
NoData == "(no data)"

\* a message whose data has no type: event.data.type is undefined
NoType == "(no type)"

\* event.data.type of the messages a client may post; "PING" stands for any
\* type the switch has no case for
MessageTypes == { "SKIP_WAITING", "GET_VERSION", "CLEAR_CACHE", "PING", NoType, NoData }

\* line 198: event.data && event.data.type
HasType(type) == type # NoData /\ type # NoType

\* a reply whose version string was not updated with CACHE_NAME
VersionReply_Stale == [ version |-> OLD_CACHE_NAME ]

\* line 204: the object posted on event.ports[0]
VersionReply == [ version |-> CACHE_NAME ]

\* line 208
SuccessReply == [ success |-> TRUE ]

\* line 209: error.message of the rejected caches.delete
ErrorReply == [ error |-> "delete failed" ]

\* a message event: replies are what has been posted on event.ports[0];
\* cpc, listed, pending, failed follow the promise chain of clearAllCaches
Message(type) ==
    [ type |-> type, replies |-> << >>, cpc |-> "none",
      listed |-> {}, pending |-> {}, failed |-> FALSE ]

\* a listener whose switch has a default case that posts an error
MessageEvent_DefaultReplies(type) ==
    /\ swState \in { "installing", "installed", "activating", "activated" }
    /\ Len(msgs) < MaxMessages
    /\ msgs' = Append(msgs,
                 IF HasType(type) /\ type = "GET_VERSION"
                 THEN [ Message(type) EXCEPT !.replies = << VersionReply >> ]
                 ELSE IF HasType(type) /\ type = "CLEAR_CACHE"
                 THEN [ Message(type) EXCEPT !.cpc = "keys" ]
                 ELSE IF HasType(type) /\ type # "SKIP_WAITING"
                 THEN [ Message(type) EXCEPT !.replies = << ErrorReply >> ]
                 ELSE Message(type))
    /\ skipWaitingCalled' = (skipWaitingCalled \/ (HasType(type) /\ type = "SKIP_WAITING"))
    /\ UNCHANGED << swState, ipc, precache, apc, aPending, aFailed, claimed, purged,
                    cacheList, store, h, converterVars, utilsVars >>

\* The platform dispatches a message event; the listener runs its switch.
\* SKIP_WAITING calls self.skipWaiting(), GET_VERSION posts the version,
\* CLEAR_CACHE calls clearAllCaches(), whose caches.keys() is then pending;
\* any other type falls through the switch.
MessageEvent(type) ==
    /\ swState \in { "installing", "installed", "activating", "activated" }
    /\ Len(msgs) < MaxMessages
    /\ msgs' = Append(msgs,
                 IF HasType(type) /\ type = "GET_VERSION"
                 THEN [ Message(type) EXCEPT !.replies = << VersionReply >> ]
                 ELSE IF HasType(type) /\ type = "CLEAR_CACHE"
                 THEN [ Message(type) EXCEPT !.cpc = "keys" ]
                 ELSE Message(type))
    /\ skipWaitingCalled' = (skipWaitingCalled \/ (HasType(type) /\ type = "SKIP_WAITING"))
    /\ UNCHANGED << swState, ipc, precache, apc, aPending, aFailed, claimed, purged,
                    cacheList, store, h, converterVars, utilsVars >>

\* a clearAllCaches whose .then does not return Promise.all(...): the
\* deletions are issued and the chain goes on without waiting for them
ClearKeys_WithoutWaiting(k) ==
    /\ k \in 1..Len(msgs)
    /\ msgs[k].cpc = "keys"
    /\ LET cacheNames == { cacheList[n] : n \in 1..Len(cacheList) }
       IN  msgs' = [ msgs EXCEPT ![k] =
                       [ @ EXCEPT !.listed = cacheNames, !.pending = cacheNames,
                                  !.cpc = "then" ] ]
    /\ UNCHANGED << lifecycleVars, cacheList, store, h, converterVars, utilsVars >>

\* caches.keys() of clearAllCaches settles and the map issues one
\* caches.delete per listed name (lines 242-246); Promise.all of no pending
\* deletion is fulfilled at once
ClearKeys(k) ==
    /\ k \in 1..Len(msgs)
    /\ msgs[k].cpc = "keys"
    /\ LET cacheNames == { cacheList[n] : n \in 1..Len(cacheList) }
       IN  msgs' = [ msgs EXCEPT ![k] =
                       [ @ EXCEPT !.listed = cacheNames, !.pending = cacheNames,
                                  !.cpc = IF cacheNames = {} THEN "then"
                                          ELSE "deleting" ] ]
    /\ UNCHANGED << lifecycleVars, cacheList, store, h, converterVars, utilsVars >>

\* One caches.delete(cacheName) of clearAllCaches settles.  Deleting a name
\* that no longer exists is fulfilled (with false).  Promise.all is
\* fulfilled when the last deletion is, and rejects as soon as one rejects
\* (the other deletions stay in flight).  A cache.put still pending on the
\* deleted dynamic partition now writes to a partition no name leads to.
ClearDelete(k, cacheName, ok) ==
    /\ k \in 1..Len(msgs)
    /\ cacheName \in msgs[k].pending
    /\ msgs' = [ msgs EXCEPT ![k] =
                   [ @ EXCEPT
                       !.pending = @ \ { cacheName },
                       !.failed = (@ \/ ~ ok),
                       !.cpc = IF @ # "deleting" THEN @
                               ELSE IF ~ ok THEN "catch"
                               ELSE IF msgs[k].pending = { cacheName } THEN "then"
                               ELSE @ ] ]
    /\ IF ok
       THEN /\ cacheList' = Remove(cacheList, cacheName)
            /\ store' = [ store EXCEPT ![cacheName] = << >> ]
            /\ h' = [ i \in Slots |->
                        IF cacheName = DYNAMIC_CACHE_NAME /\ h[i].putpc = "pending"
                        THEN [ h[i] EXCEPT !.putpc = "orphan" ]
                        ELSE h[i] ]
       ELSE UNCHANGED << cacheList, store, h >>
    /\ UNCHANGED << lifecycleVars, converterVars, utilsVars >>

\* lines 208-209: the .then posts { success: true }, the .catch posts
\* { error: error.message }
ClearReply(k) ==
    /\ k \in 1..Len(msgs)
    /\ msgs[k].cpc \in { "then", "catch" }
    /\ msgs' = [ msgs EXCEPT ![k] =
                   [ @ EXCEPT !.replies = Append(@, IF msgs[k].cpc = "then"
                                                    THEN SuccessReply ELSE ErrorReply),
                              !.cpc = "done" ] ]
    /\ UNCHANGED << lifecycleVars, cacheList, store, h, converterVars, utilsVars >>

(***************************************************************************)
(* Specification                                                           *)
(***************************************************************************)
Next ==
    \/ InstallEvent
    \/ InstallOpen
    \/ \E bad \in 0..Len(STATIC_FILES) : InstallAddAll(bad)
    \/ InstallSkipWaiting
    \/ InstallCatch
    \/ InstallSettled
    \/ ActivateEvent
    \/ ActivateKeys
    \/ \E cacheName \in AllNames, ok \in BOOLEAN : ActivateDelete(cacheName, ok)
    \/ ActivateClaim
    \/ ActivateCatch
    \/ ActivateSettled
    \/ \E i \in Slots, req \in Requests : FetchEvent(i, req)
    \/ \E i \in Slots : CacheLookup(i)
    \/ \E i \in Slots : \E r \in NetworkResponses(h[i].req) : NetworkResolve(i, r)
    \/ \E i \in Slots : NetworkReject(i)
    \/ \E i \in Slots : Fallback(i)
    \/ \E i \in Slots : WriteOpen(i)
    \/ \E i \in Slots, ok \in BOOLEAN : PutSettle(i, ok)
    \/ \E i \in Slots : LimitOpen(i)
    \/ \E i \in Slots : LimitKeys(i)
    \/ \E i \in Slots : LimitCheck(i)

Spec == Init /\ [][Next]_vars

\* the worker with its message listener: one fetch interception at a time,
\* of the application's own resources
MessageSlots == { 1 }

MessageRequests == { req \in Requests : req.method = "GET" /\ SameOrigin(req.url) }

NextMessage ==
    \/ InstallEvent
    \/ InstallOpen
    \/ \E bad \in { 0, 1 } : InstallAddAll(bad)
    \/ InstallSkipWaiting
    \/ InstallCatch
    \/ InstallSettled
    \/ ActivateEvent
    \/ ActivateKeys
    \/ \E cacheName \in AllNames, ok \in BOOLEAN : ActivateDelete(cacheName, ok)
    \/ ActivateClaim
    \/ ActivateCatch
    \/ ActivateSettled
    \/ \E i \in MessageSlots, req \in MessageRequests : FetchEvent(i, req)
    \/ \E i \in MessageSlots : CacheLookup(i)
    \/ \E i \in MessageSlots : \E r \in NetworkResponses(h[i].req) : NetworkResolve(i, r)
    \/ \E i \in MessageSlots : NetworkReject(i)
    \/ \E i \in MessageSlots : Fallback(i)
    \/ \E i \in MessageSlots : WriteOpen(i)
    \/ \E i \in MessageSlots, ok \in BOOLEAN : PutSettle(i, ok)
    \/ \E i \in MessageSlots : LimitOpen(i)
    \/ \E i \in MessageSlots : LimitKeys(i)
    \/ \E i \in MessageSlots : LimitCheck(i)
    \/ \E type \in MessageTypes : MessageEvent(type)
    \/ \E k \in 1..MaxMessages : ClearKeys(k)
    \/ \E k \in 1..MaxMessages, cacheName \in AllNames, ok \in BOOLEAN :
            ClearDelete(k, cacheName, ok)
    \/ \E k \in 1..MaxMessages : ClearReply(k)

SpecMessage == Init /\ [][NextMessage]_vars

(***************************************************************************)
(* The converter page (src/js/converter.js, NumberSystemConverter)         *)
(***************************************************************************)
\* what a user types or pastes into each field: the examples of the
\* documentation, padded and zero-led texts, texts with a character outside
\* the radix, and integers of more than SIGNIFICAND_BITS bits
TextsOf(type) ==
    IF type = "binary"
    THEN { << >>, << " " >>,
           << "1", "0", "1", "0" >>,
           << " ", "0", "0", "1", "1", "\t" >>,
           << "1", "2" >> }
    ELSE IF type = "octal"
    THEN { << >>,
           << "7", "5", "5" >>,
           << "7", "8" >> }
    ELSE IF type = "decimal"
    THEN { << >>, << "\t", " " >>,
           << "4", "9", "3" >>,
           << "1", "e", "3" >>,
           << "9", "0", "0", "7", "1", "9", "9", "2", "5", "4", "7", "4", "0", "9", "9", "3" >> }
    ELSE { << >>,
           << "f", "f" >>,
           << "f", "g" >>,
           << "1" >> \o [ k \in 1..15 |-> "0" ] }

\* the keys of the keypress events: two digits, the space bar and the
\* backspace key
KeyChars == { "1", "2", " " }

Backspace == "Backspace"

\* event.which of a keypress event
Which(key) ==
    IF key = Backspace THEN 8
    ELSE IF key = " " THEN 32
    ELSE IF key = "1" THEN 49
    ELSE 50

\* every text of at most MaxTyped of those characters
KeyTexts == UNION { [ 1..n -> KeyChars ] : n \in 0..MaxTyped }

\* handleInput tabulated over those texts, every entry evaluated
Handled ==
    [ type \in TypeSet |->
        [ text \in TextsOf(type) \cup KeyTexts |-> HandleInput(type, text) ] @@ << >> ]
        @@ << >>

\* what handleInput(sourceType, value) leaves behind
Outcome(sourceType, value) ==
    IF value \in TextsOf(sourceType) \cup KeyTexts
    THEN Handled[sourceType][value]
    ELSE HandleInput(sourceType, value)

\* a handleInput that leaves an error it finds displayed
Handle_KeepsError(sourceType, value) ==
    /\ results' = IF errorClass THEN results ELSE Outcome(sourceType, value).results
    /\ errorClass' = (errorClass \/ Outcome(sourceType, value).errorClass)
    /\ currentValues' = IF errorClass THEN Null ELSE Outcome(sourceType, value).currentValues
    /\ handled' = [ sourceType |-> sourceType, value |-> value ]

\* a call of handleInput(sourceType, value)
Handle(sourceType, value) ==
    /\ results' = Outcome(sourceType, value).results
    /\ errorClass' = Outcome(sourceType, value).errorClass
    /\ currentValues' = Outcome(sourceType, value).currentValues
    /\ handled' = [ sourceType |-> sourceType, value |-> value ]

\* what the application and the listeners of the other events leave alone
appVars == << converter, shortcuts >>

\* a listener that calls neither clearAll nor copyResults and is not the
\* keydown listener
Other ==
    /\ called' = "other"
    /\ writeText' = NoText
    /\ keydown' = NoKey

\* an input listener that writes the cleaned text back into the field
InputEvent_WritesBack(type, text) ==
    /\ converter = "created"
    /\ inputs' = [ inputs EXCEPT ![type] = Cleaned(text) ]
    /\ Handle(type, text)
    /\ Other
    /\ UNCHANGED << pasteTimers, notification, copyThrew, inputErrors, appVars,
                    workerVars, utilsVars >>

\* the user edits a field so that it holds text: listener of line 55
InputEvent(type, text) ==
    /\ converter = "created"
    /\ inputs' = [ inputs EXCEPT ![type] = text ]
    /\ Handle(type, text)
    /\ Other
    /\ UNCHANGED << pasteTimers, notification, copyThrew, inputErrors, appVars,
                    workerVars, utilsVars >>

\* the user pastes into a field, which then holds text: the listener of
\* line 56 starts a timer, and the insertion fires the input event
PasteEvent(type, text) ==
    /\ converter = "created"
    /\ Cardinality(pasteTimers \cup { type }) <= MaxPasteTimers
    /\ pasteTimers' = pasteTimers \cup { type }
    /\ inputs' = [ inputs EXCEPT ![type] = text ]
    /\ Handle(type, text)
    /\ Other
    /\ UNCHANGED << notification, copyThrew, inputErrors, appVars, workerVars, utilsVars >>

\* the timer of line 58 fires: handleInput reads the field as it is now
PasteTimeout(type) ==
    /\ type \in pasteTimers
    /\ pasteTimers' = pasteTimers \ { type }
    /\ Handle(type, inputs[type])
    /\ Other
    /\ UNCHANGED << inputs, notification, copyThrew, inputErrors, appVars, workerVars, utilsVars >>

\* the characters that the pattern of each keypress listener accepts (lines
\* 67-70)
KeyPattern(type) ==
    IF type = "binary" THEN { "0", "1" }
    ELSE IF type = "octal" THEN { DigitChars[k] : k \in 1..8 }
    ELSE IF type = "decimal" THEN { DigitChars[k] : k \in 1..10 }
    ELSE { DigitChars[k] : k \in 1..16 } \cup { ToUpperCase(DigitChars)[k] : k \in 11..16 }

\* validateInput(event, pattern) (lines 78-89) lets the key through
Allowed(type, key) == Which(key) <= 32 \/ key \in KeyPattern(type)

\* the field after the default action of an allowed key, the caret being at
\* the end of the text
Typed(text, key) ==
    IF key = Backspace
    THEN SubSeq(text, 1, Len(text) - 1)
    ELSE Append(text, key)

\* a key is pressed in a field: the keypress listener runs validateInput;
\* an allowed key changes the field, which fires the input event; a
\* rejected one is prevented and marks the field (showInputError, 95-98)
KeyPress(type, key) ==
    /\ converter = "created"
    /\ key # Backspace => Len(inputs[type]) < MaxTyped
    /\ IF ~ Allowed(type, key)
       THEN /\ Cardinality(inputErrors \cup { type }) <= MaxInputErrors
            /\ inputErrors' = inputErrors \cup { type }
            /\ UNCHANGED << inputs, results, errorClass, currentValues, handled >>
       ELSE IF Typed(inputs[type], key) = inputs[type]
       THEN UNCHANGED << inputs, results, errorClass, currentValues, handled, inputErrors >>
       ELSE /\ inputs' = [ inputs EXCEPT ![type] = Typed(inputs[type], key) ]
            /\ Handle(type, Typed(inputs[type], key))
            /\ UNCHANGED inputErrors
    /\ Other
    /\ UNCHANGED << pasteTimers, notification, copyThrew, appVars, workerVars, utilsVars >>

\* the timer of showInputError fires (line 97)
InputErrorTimeout(type) ==
    /\ type \in inputErrors
    /\ inputErrors' = inputErrors \ { type }
    /\ Other
    /\ UNCHANGED << inputs, results, errorClass, currentValues, handled, pasteTimers,
                    notification, copyThrew, appVars, workerVars, utilsVars >>

\* a clearAll that leaves the marks of the input fields
ClearAll_KeepsInputErrors ==
    /\ inputs' = [ t \in TypeSet |-> << >> ]
    /\ inputErrors' = inputErrors
    /\ results' = [ t \in TypeSet |-> Placeholder ]
    /\ errorClass' = FALSE
    /\ currentValues' = Null
    /\ handled' = NoCall

\* a clearAll whose clearResults leaves this.currentValues as it is
ClearAll_KeepsValues ==
    /\ inputs' = [ t \in TypeSet |-> << >> ]
    /\ inputErrors' = {}
    /\ results' = [ t \in TypeSet |-> Placeholder ]
    /\ errorClass' = FALSE
    /\ currentValues' = currentValues
    /\ handled' = NoCall

\* clearAll (lines 195-201) with clearResults (206-212)
ClearAll ==
    /\ inputs' = [ t \in TypeSet |-> << >> ]
    /\ inputErrors' = {}
    /\ results' = [ t \in TypeSet |-> Placeholder ]
    /\ errorClass' = FALSE
    /\ currentValues' = Null
    /\ handled' = NoCall

\* click on the clear button (line 63)
ClearClick ==
    /\ converter = "created"
    /\ ClearAll
    /\ called' = "clearAll"
    /\ writeText' = NoText
    /\ keydown' = NoKey
    /\ UNCHANGED << pasteTimers, notification, copyThrew, appVars, workerVars, utilsVars >>

\* the names bound in the catch block of copyResults (lines 233-237):
\* resultText is declared by const inside the try block and is not one
CopyCatchScope == { "error", "this", "console", "navigator" }

\* a serialization that leaves out the labels
ResultText_WithoutLabels(values) ==
    values.binary \o << "\n" >> \o values.octal \o << "\n" >> \o values.decimal
        \o << "\n" >> \o values.hexadecimal

\* the four lines of copyResults joined by newlines (lines 224-229), as the
\* sequence of their labels and characters
ResultText(values) ==
    << "Binary: " >> \o values.binary \o << "\n", "Octal: " >> \o values.octal
        \o << "\n", "Decimal: " >> \o values.decimal
        \o << "\n", "Hexadecimal: " >> \o values.hexadecimal

\* a copyResults that serializes the result fields when nothing is stored
CopyResults_CopiesDisplayed(written) ==
    /\ IF currentValues = Null
       THEN notification' = "No results to copy" /\ copyThrew' = FALSE
       ELSE IF written
       THEN notification' = "Results copied to clipboard!" /\ copyThrew' = FALSE
       ELSE IF "resultText" \in CopyCatchScope
       THEN notification' = "Results copied to clipboard!" /\ copyThrew' = FALSE
       ELSE notification' = notification /\ copyThrew' = TRUE
    /\ writeText' = IF currentValues = Null
                    THEN ResultText([ binary |-> results["binary"],
                                      octal |-> results["octal"],
                                      decimal |-> results["decimal"],
                                      hexadecimal |-> results["hexadecimal"] ])
                    ELSE ResultText(currentValues)

\* copyResults (lines 217-238); written tells whether
\* navigator.clipboard.writeText was fulfilled
CopyResults(written) ==
    /\ IF currentValues = Null
       THEN notification' = "No results to copy" /\ copyThrew' = FALSE
       ELSE IF written
       THEN notification' = "Results copied to clipboard!" /\ copyThrew' = FALSE
       ELSE IF "resultText" \in CopyCatchScope
       THEN notification' = "Results copied to clipboard!" /\ copyThrew' = FALSE
       ELSE notification' = notification /\ copyThrew' = TRUE
    /\ writeText' = IF currentValues = Null THEN NoText ELSE ResultText(currentValues)

\* click on the copy button (line 64)
CopyClick(written) ==
    /\ converter = "created"
    /\ CopyResults(written)
    /\ called' = "copyResults"
    /\ keydown' = NoKey
    /\ UNCHANGED << inputs, results, errorClass, currentValues, handled, pasteTimers,
                    inputErrors, appVars, workerVars, utilsVars >>

\* the timers of showCopyMessage remove the notification (lines 298-305)
NotificationRemoved ==
    /\ notification # ""
    /\ notification' = ""
    /\ Other
    /\ UNCHANGED << inputs, results, errorClass, currentValues, handled, pasteTimers,
                    copyThrew, inputErrors, appVars, workerVars, utilsVars >>

NextPage ==
    \/ \E type \in TypeSet : \E text \in TextsOf(type) : InputEvent(type, text)
    \/ \E type \in TypeSet : \E text \in TextsOf(type) : PasteEvent(type, text)
    \/ \E type \in TypeSet : PasteTimeout(type)
    \/ ClearClick
    \/ \E written \in BOOLEAN : CopyClick(written)
    \/ NotificationRemoved

SpecPage == Init /\ [][NextPage]_vars

\* the characters of the short texts: digits of each radix in both cases, a
\* letter outside every radix and white space
ConvertChars == { "0", "1", "9", "a", "F", "g", " " }

\* every text of at most MaxTextLen of those characters
ShortTexts == UNION { [ 1..n -> ConvertChars ] : n \in 0..MaxTextLen }

\* integers of more than SIGNIFICAND_BITS bits, written in each radix
LongTexts(type) ==
    IF type = "binary"
    THEN { << "1" >> \o [ k \in 1..(SIGNIFICAND_BITS - 1) |-> "0" ] \o << "1" >> }
    ELSE IF type = "octal"
    THEN { << "4" >> \o [ k \in 1..16 |-> "0" ] \o << "1" >> }
    ELSE IF type = "decimal"
    THEN { << "1", "8", "4", "4", "6", "7", "4", "4", "0", "7", "3", "7", "0", "9", "5",
              "5", "1", "6", "1", "5" >> }
    ELSE { << "2" >> \o [ k \in 1..12 |-> "0" ] \o << "1" >> }

ConvertTexts(type) == ShortTexts \cup TextsOf(type) \cup LongTexts(type)

\* the first edit of a field of the fresh page
FirstInput(type, text) ==
    /\ handled = NoCall
    /\ InputEvent(type, text)

\* the user types the text that the result field of the radix of the latest
\* edit shows into the input field of that radix
Retype ==
    /\ handled # NoCall
    /\ InputEvent(handled.sourceType, results[handled.sourceType])

NextConvert ==
    \/ \E type \in TypeSet : \E text \in ConvertTexts(type) : FirstInput(type, text)
    \/ Retype

SpecConvert == Init /\ [][NextConvert]_vars


(***************************************************************************)
(* Texts beyond the range of a Number                                      *)
(***************************************************************************)
\* 2^MAX_VALUE_BITS written in binary, octal and hexadecimal
HugeTexts(type) ==
    IF type = "binary"
    THEN { << "1" >> \o [ k \in 1..MAX_VALUE_BITS |-> "0" ] }
    ELSE IF type = "octal"
    THEN { << "2" >> \o [ k \in 1..((MAX_VALUE_BITS - 1) \div 3) |-> "0" ] }
    ELSE IF type = "hexadecimal"
    THEN { << "1" >> \o [ k \in 1..(MAX_VALUE_BITS \div 4) |-> "0" ] }
    ELSE { }

NextParse ==
    \/ \E type \in TypeSet :
         \E text \in ConvertTexts(type) \cup HugeTexts(type) : FirstInput(type, text)
    \/ Retype
    \/ ClearClick

\* a fresh page on which one text is typed, short or beyond the range
SpecParse == Init /\ [][NextParse]_vars

(***************************************************************************)
(* NumberSystemUtils.toSignedBinary (converter.js lines 393-419)           *)
(***************************************************************************)
\* the largest bits argument of the calls, and the bound of their decimal
\* arguments
MaxBits == 5

MaxDecimal == 2^MaxBits

\* the Number that holds the natural number n, which is below 2^31
NumberOf(n) == StripZeros([ k \in 1..31 |-> (n \div 2^(31 - k)) % 2 ])

\* Math.abs
Abs(x) == IF x < 0 THEN 0 - x ELSE x

\* String.prototype.padStart(targetLength, padString) with a pad of one
\* character
PadStart(s, targetLength, padString) ==
    IF Len(s) >= targetLength
    THEN s
    ELSE [ k \in 1..(targetLength - Len(s)) |-> padString ] \o s

\* lines 402-405: every '0' becomes '1' and every other character '0'
Inverted(padded) == [ i \in 1..Len(padded) |-> IF padded[i] = "0" THEN "1" ELSE "0" ]

\* lines 408-414: the loop that adds 1 from the last character on; carry[i]
\* is the carry when the loop comes to character i, and the carry that
\* leaves the first character is dropped
AddOne(inverted) ==
    LET digit(i) == IF inverted[i] = "1" THEN 1 ELSE 0
        carry[i \in 1..Len(inverted)] ==
            IF i = Len(inverted) THEN 1 ELSE (digit(i + 1) + carry[i + 1]) \div 2
    IN  [ i \in 1..Len(inverted) |-> IF (digit(i) + carry[i]) % 2 = 1 THEN "1" ELSE "0" ]

\* a toSignedBinary that returns the inverted bits without adding 1
ToSignedBinary_WithoutAddOne(decimal, bits) ==
    IF decimal >= 0
    THEN PadStart(NumberToString(NumberOf(decimal), 2), bits, "0")
    ELSE Inverted(PadStart(NumberToString(NumberOf(Abs(decimal)), 2), bits, "0"))

\* toSignedBinary(decimal, bits)
ToSignedBinary(decimal, bits) ==
    IF decimal >= 0
    THEN PadStart(NumberToString(NumberOf(decimal), 2), bits, "0")
    ELSE AddOne(Inverted(PadStart(NumberToString(NumberOf(Abs(decimal)), 2), bits, "0")))

\* the bits arguments: every width up to MaxBits, and the default of 32
BitsArgs == (1..MaxBits) \cup { 32 }

\* a call NumberSystemUtils.toSignedBinary(decimal, bits)
ToSignedBinaryCall(decimal, bits) ==
    /\ signed' = [ decimal |-> decimal, bits |-> bits,
                   result |-> ToSignedBinary(decimal, bits) ]
    /\ UNCHANGED << workerVars, converterVars >>

NextUtils ==
    \E decimal \in (0 - MaxDecimal)..MaxDecimal, bits \in BitsArgs :
        ToSignedBinaryCall(decimal, bits)

SpecUtils == Init /\ [][NextUtils]_vars

(***************************************************************************)
(* The application (app.js, src/unnamed/part_001, NumberSystemApp)         *)
(***************************************************************************)
\* the page when the application script starts (constructor, lines 7-10):
\* this.converter is null, no listener is bound, the fields are as the
\* document declares them and no cache partition exists
InitApp ==
    /\ swState = "parsed"
    /\ ipc = "none"
    /\ precache = "none"
    /\ skipWaitingCalled = FALSE
    /\ apc = "none"
    /\ aPending = {}
    /\ aFailed = FALSE
    /\ claimed = FALSE
    /\ purged = FALSE
    /\ cacheList = << >>
    /\ store = [ n \in AllNames |-> << >> ]
    /\ h = [ i \in Slots |-> IdleHandler ]
    /\ msgs = << >>
    /\ inputs = [ t \in TypeSet |-> << >> ]
    /\ results = [ t \in TypeSet |-> Placeholder ]
    /\ errorClass = FALSE
    /\ currentValues = Null
    /\ handled = NoCall
    /\ pasteTimers = {}
    /\ notification = ""
    /\ copyThrew = FALSE
    /\ inputErrors = {}
    /\ called = "other"
    /\ writeText = NoText
    /\ keydown = NoKey
    /\ signed = NoSigned
    /\ converter = "pending"
    /\ shortcuts = FALSE

\* startApp (lines 46-60): the constructor of NumberSystemConverter binds
\* the listeners and calls clearAll; when it throws (ok is false),
\* this.converter stays null
StartApp(ok) ==
    /\ converter = "pending"
    /\ IF ok
       THEN /\ converter' = "created"
            /\ ClearAll
            /\ called' = "clearAll"
       ELSE /\ converter' = "failed"
            /\ called' = "other"
            /\ UNCHANGED << inputs, inputErrors, results, errorClass, currentValues,
                            handled >>
    /\ writeText' = NoText
    /\ keydown' = NoKey
    /\ UNCHANGED << pasteTimers, notification, copyThrew, shortcuts, workerVars, utilsVars >>

\* setupKeyboardShortcuts (lines 210-235), which init calls once the
\* registration of the service worker has settled (lines 25-36)
SetupKeyboardShortcuts ==
    /\ ~ shortcuts
    /\ shortcuts' = TRUE
    /\ Other
    /\ UNCHANGED << inputs, results, errorClass, currentValues, handled, pasteTimers,
                    notification, copyThrew, inputErrors, converter, workerVars, utilsVars >>

\* the keydown events: e.key, e.ctrlKey || e.metaKey, e.target.matches('input')
KeyEvents ==
    [ key : { "k", "c", "Escape" }, modifier : BOOLEAN, inInput : BOOLEAN ]

\* the first and the third test of the keydown listener (lines 213, 229)
ClearsAll(e) == (e.modifier /\ e.key = "k") \/ e.key = "Escape"

\* a second test that ignores the target of the event
Copies_InInputToo(e) == e.modifier /\ e.key = "c"

\* the second test of the keydown listener (line 221)
Copies(e) == e.modifier /\ e.key = "c" /\ ~ e.inInput

\* the keydown listener (lines 211-234); written tells whether
\* navigator.clipboard.writeText of a copy is fulfilled
KeyDown(e, written) ==
    /\ shortcuts
    /\ keydown' = [ key |-> e.key, modifier |-> e.modifier, inInput |-> e.inInput,
                    prevented |-> (e.modifier /\ e.key = "k") \/ Copies(e) ]
    /\ IF converter = "created" /\ ClearsAll(e)
       THEN /\ ClearAll
            /\ called' = "clearAll"
            /\ writeText' = NoText
            /\ UNCHANGED << notification, copyThrew >>
       ELSE IF converter = "created" /\ Copies(e)
       THEN /\ CopyResults(written)
            /\ called' = "copyResults"
            /\ UNCHANGED << inputs, inputErrors, results, errorClass, currentValues,
                            handled >>
       ELSE /\ called' = "other"
            /\ writeText' = NoText
            /\ UNCHANGED << inputs, inputErrors, results, errorClass, currentValues,
                            handled, notification, copyThrew >>
    /\ UNCHANGED << pasteTimers, appVars, workerVars, utilsVars >>

\* the fields that the user types into key by key
TypedFields == { "binary", "decimal" }

\* what the user pastes into each field
PasteTexts(type) == IF type = "binary" THEN { << "1", "2" >> } ELSE { }

NextApp ==
    \/ \E ok \in BOOLEAN : StartApp(ok)
    \/ SetupKeyboardShortcuts
    \/ \E e \in KeyEvents : \E written \in BOOLEAN : KeyDown(e, written)
    \/ \E type \in TypedFields : \E key \in KeyChars \cup { Backspace } :
           KeyPress(type, key)
    \/ \E type \in TypeSet : InputErrorTimeout(type)
    \/ \E type \in TypeSet : \E text \in PasteTexts(type) : PasteEvent(type, text)
    \/ \E type \in TypeSet : PasteTimeout(type)
    \/ ClearClick
    \/ \E written \in BOOLEAN : CopyClick(written)
    \/ NotificationRemoved

SpecApp == InitApp /\ [][NextApp]_vars

(***************************************************************************)
(* Properties                                                              *)
(***************************************************************************)
Dynamic == store[DYNAMIC_CACHE_NAME]

\* the existing partitions that are neither V-static nor V-dynamic
OtherPartitions ==
    { cacheList[k] : k \in 1..Len(cacheList) }
        \ { << CACHE_NAME, "-static" >>, << CACHE_NAME, "-dynamic" >> }

\* no cache write and no eviction pass of any interception is still running
WritesSettled ==
    \A i \in Slots :
        /\ h[i].wpc # "open"
        /\ h[i].putpc \notin { "pending", "orphan" }
        /\ h[i].lpc \in { "none", "done", "threw" }

\* C1: once the cache writes and the eviction passes started by the fetch
\* interceptions have all finished, the dynamic partition holds at most
\* MAX_DYNAMIC_CACHE_SIZE entries.
C1_DynamicWithinMax ==
    WritesSettled => Len(Dynamic) <= MAX_DYNAMIC_CACHE_SIZE

C3_FailedPrecacheFailsInstall ==
    precache = "failed" =>
        /\ ipc # "resolved"
        /\ swState \notin { "installed", "activating", "activated" }

C5_PurgeAfterPrecache ==
    apc # "none" =>
        /\ precache = "ok"
        /\ \A k \in 1..Len(STATIC_FILES) :
              HasKey(store[STATIC_CACHE_NAME], Url(SelfOrigin, STATIC_FILES[k]))

\* C6: clients.claim() is called only after every deletion issued by the
\* purge has completed: once claimed, no deletion of the purge is in flight
\* and no stale partition exists.
C6_ClaimAfterPurge ==
    claimed => ( aPending = {} /\ ~ aFailed /\ OtherPartitions = {} )

\* clients were claimed after a purge that removed a partition
C6_Witness ==
    claimed /\ purged /\ OtherPartitions = {}

\* C7: a request is intercepted (respondWith is called and the caches are
\* read) only if its method is GET and its URL is same-origin with the
\* worker.
C7_OnlySameOriginGetIntercepted ==
    \A i \in Slots :
        h[i].log # << >> =>
            ( h[i].req.method = "GET" /\ SameOrigin(h[i].req.url) )

\* the orders in which one interception may go through its steps
LegalLogs ==
    { << >>,
      << "respondWith" >>,
      << "respondWith", "match", "hit" >>,
      << "respondWith", "match", "miss", "fetch" >>,
      << "respondWith", "match", "miss", "fetch", "failed" >>,
      << "respondWith", "match", "miss", "fetch", "ok" >>,
      << "respondWith", "match", "miss", "fetch", "ok", "write" >> }

Logged(i, what) == \E k \in 1..Len(h[i].log) : h[i].log[k] = what

\* C8: within one interception the cache lookup comes first; a hit is
\* returned and no network fetch is issued; the network fetch is issued only
\* after a miss, and the dynamic-cache write only after the fetch succeeded.
C8_StepsStrictlyOrdered ==
    \A i \in Slots :
        /\ h[i].log \in LegalLogs
        /\ Logged(i, "hit") =>
              /\ h[i].pc = "done"
              /\ h[i].resp # Undefined
              /\ h[i].resp.url = h[i].req.url
              /\ h[i].net = NoResponse
              /\ h[i].wpc = "none"
        /\ h[i].pc \in { "network", "fallback" } => Logged(i, "miss")
        /\ h[i].net # NoResponse => Logged(i, "ok")
        /\ h[i].wpc # "none" => ( Logged(i, "write") /\ h[i].net # NoResponse )
        /\ h[i].putpc # "none" => h[i].wpc = "done"

\* one interception ended on a cache hit, another went lookup, miss, network
\* fetch, cache write
C8_Witness ==
    \E i, j \in Slots :
        /\ h[i].log = << "respondWith", "match", "hit" >>
        /\ h[j].log = << "respondWith", "match", "miss", "fetch", "ok", "write" >>
        /\ h[j].putpc = "done"

\* C9: the handler starts a cache write only for a network response of
\* status 200 and type 'basic'; any other response is returned without a
\* write, so every entry of the dynamic partition is a 200 basic response.
C9_OnlyBasic200Cached ==
    /\ \A k \in 1..Len(Dynamic) :
          Dynamic[k].resp.status = 200 /\ Dynamic[k].resp.type = "basic"
    /\ \A i \in Slots :
          /\ h[i].wpc # "none" => ( h[i].net.status = 200 /\ h[i].net.type = "basic" )
          /\ ( h[i].net # NoResponse
               /\ ( h[i].net.status # 200 \/ h[i].net.type # "basic" ) )
             => ( h[i].wpc = "none" /\ h[i].putpc = "none" /\ h[i].resp = h[i].net )

\* a 200 basic response was stored while another interception returned a
\* non-basic 200 response without a write
C9_Witness ==
    /\ Len(Dynamic) > 0
    /\ \E i \in Slots :
          /\ h[i].net.status = 200
          /\ h[i].net.type = "cors"
          /\ h[i].pc = "done"
          /\ h[i].wpc = "none"

\* C10: when the network fetch has succeeded, the caller has the network
\* response, unchanged, whether the cache write is pending, done or failed.
C10_NetworkResponseReturned ==
    \A i \in Slots :
        h[i].net # NoResponse => ( h[i].pc = "done" /\ h[i].resp = h[i].net )

\* the network response was returned, the cache.put of its clone rejected
\* and the eviction pass has ended
C10_Witness ==
    \E i \in Slots :
        /\ h[i].net.status = 200
        /\ h[i].resp = h[i].net
        /\ h[i].putpc = "failed"
        /\ h[i].lpc \in { "done", "threw" }


\* the entries stored under '/index.html', in any existing partition
MainPageEntries ==
    UNION { { store[cacheList[k]][e].resp :
                e \in { x \in 1..Len(store[cacheList[k]]) :
                            store[cacheList[k]][x].key = IndexUrl } }
            : k \in 1..Len(cacheList) }

C12_FailureAnsweredWithResponse ==
    \A i \in Slots :
        ( h[i].pc = "done" /\ Logged(i, "failed") )
            => ( h[i].resp # Undefined /\ h[i].resp # NoResponse )

\* the URLs of the precached assets
StaticUrls == { Url(SelfOrigin, STATIC_FILES[k]) : k \in 1..Len(STATIC_FILES) }

\* C13: once the worker is installed and activated, every GET for a path of
\* STATIC_FILES that it intercepts is answered by the cache lookup (a hit),
\* never passed on to the network, whatever fetches and messages came before.
C13_StaticAnsweredFromCache ==
    \A i \in Slots :
        ( /\ h[i].req.method = "GET"
          /\ h[i].req.url \in StaticUrls
          /\ h[i].pc \notin { "idle", "match" } )
            => ( swState = "activated" /\ Logged(i, "hit") )

\* C14: a GET_VERSION message gets exactly one reply on its port, then and
\* ever after: { version: v }, where v is the string from which the names of
\* the static and dynamic partitions are derived; handling the message
\* changes no cache partition.
C14_VersionReplied ==
    [][ \A k \in 1..Len(msgs') :
          msgs'[k].type = "GET_VERSION" =>
            /\ Len(msgs'[k].replies) = 1
            /\ DOMAIN msgs'[k].replies[1] = { "version" }
            /\ STATIC_CACHE_NAME = << msgs'[k].replies[1].version, "-static" >>
            /\ DYNAMIC_CACHE_NAME = << msgs'[k].replies[1].version, "-dynamic" >>
            /\ k > Len(msgs) => ( cacheList' = cacheList /\ store' = store ) ]_vars

\* a GET_VERSION message answered while the static partition is populated
C14_Witness ==
    \E k \in 1..Len(msgs) :
        /\ msgs[k].type = "GET_VERSION"
        /\ msgs[k].replies = << [ version |-> "number-converter-v1.0.0" ] >>
        /\ Len(store[<< CACHE_NAME, "-static" >>]) = Len(STATIC_FILES)

\* C15: a CLEAR_CACHE message issues a deletion for every partition that
\* exists when the partitions are listed, and gets at most one reply:
\* { success: true } only once every deletion has completed and none has
\* failed (the partitions listed are then gone; only the dynamic one may
\* have been created anew by a fetch), { error: ... } only if a deletion
\* failed.
C15_ClearRepliesOnce ==
    [][ \A k \in 1..Len(msgs') :
          msgs'[k].type = "CLEAR_CACHE" =>
            /\ ( k <= Len(msgs) /\ msgs[k].cpc = "keys" /\ msgs'[k].cpc # "keys" )
                  => msgs'[k].pending = { cacheList[n] : n \in 1..Len(cacheList) }
            /\ Len(msgs'[k].replies) <= 1
            /\ msgs'[k].cpc = "done" => Len(msgs'[k].replies) = 1
            /\ \A r \in 1..Len(msgs'[k].replies) :
                 \/ /\ msgs'[k].replies[r] = [ success |-> TRUE ]
                    /\ msgs'[k].pending = {}
                    /\ ~ msgs'[k].failed
                    /\ \A n \in 1..Len(cacheList') :
                         cacheList'[n] \in msgs'[k].listed
                            => cacheList'[n] = << CACHE_NAME, "-dynamic" >>
                 \/ /\ DOMAIN msgs'[k].replies[r] = { "error" }
                    /\ msgs'[k].failed ]_vars

\* success reported for a CLEAR_CACHE that found the static and the dynamic
\* partition
C15_Witness ==
    \E k \in 1..Len(msgs) :
        /\ msgs[k].type = "CLEAR_CACHE"
        /\ msgs[k].replies = << [ success |-> TRUE ] >>
        /\ { << CACHE_NAME, "-static" >>, << CACHE_NAME, "-dynamic" >> } \subseteq msgs[k].listed


(***************************************************************************)
(* Properties of the converter page                                        *)
(***************************************************************************)
\* the legal alphabet of each source radix
LegalChars(type) ==
    IF type = "binary" THEN { "0", "1" }
    ELSE IF type = "octal" THEN { "0", "1", "2", "3", "4", "5", "6", "7" }
    ELSE IF type = "decimal" THEN { "0", "1", "2", "3", "4", "5", "6", "7", "8", "9" }
    ELSE { "0", "1", "2", "3", "4", "5", "6", "7", "8", "9", "A", "B", "C", "D", "E", "F" }

\* the latest handleInput call got a text that is, trimmed and upper-cased,
\* a non-empty string over the alphabet of its radix
ValidCall ==
    /\ handled # NoCall
    /\ ToUpperCase(Trim(handled.value)) # << >>
    /\ \A k \in 1..Len(ToUpperCase(Trim(handled.value))) :
           ToUpperCase(Trim(handled.value))[k] \in LegalChars(handled.sourceType)

\* the integer that the text of the latest call denotes in its radix
Denoted ==
    MathInt([ k \in 1..Len(Trim(handled.value)) |-> DigitValue(Trim(handled.value)[k]) ],
            Radix(handled.sourceType))

\* the digits of the integer x in radix, in upper case
Rendering(x, radix) ==
    IF x = << >>
    THEN << "0" >>
    ELSE ToUpperCase([ k \in 1..Len(Digits(x, radix)) |-> DigitChars[Digits(x, radix)[k] + 1] ])

\* C16: after handleInput got a text that is, trimmed and upper-cased, a
\* non-empty string over the alphabet of its radix, the four result fields
\* show the base-2, base-8, base-10 and base-16 (upper case) renderings of
\* the integer that the text denotes in that radix
C16_RendersDenotedInteger ==
    ValidCall => \A t \in TypeSet : results[t] = Rendering(Denoted, Radix(t))

\* a text without its leading zeros (a text of zeros keeps one)
WithoutLeadingZeros(s) ==
    IF \A k \in 1..Len(s) : s[k] = "0"
    THEN << "0" >>
    ELSE SubSeq(s, CHOOSE k \in 1..Len(s) : s[k] # "0" /\ \A j \in 1..(k - 1) : s[j] = "0",
                Len(s))

\* C17: after handleInput got a valid text s in radix r, the result field
\* of radix r shows s upper-cased and without leading zeros; and typing
\* that result into the field of radix r leaves all four results unchanged
C17_RoundTrip ==
    [][ /\ ValidCall' =>
            results'[handled'.sourceType]
                = WithoutLeadingZeros(ToUpperCase(Trim(handled'.value)))
        /\ ( /\ ValidCall
             /\ handled'.sourceType = handled.sourceType
             /\ handled'.value = results[handled.sourceType] )
            => results' = results ]_vars

\* C18: after handleInput got a text that, trimmed and upper-cased, holds a
\* character outside the legal alphabet of its radix, no conversion was
\* made and all four result fields show the error marker 'Error'
C18_IllegalCharacterShowsError ==
    ( /\ handled # NoCall
      /\ \E k \in 1..Len(ToUpperCase(Trim(handled.value))) :
             ToUpperCase(Trim(handled.value))[k] \notin LegalChars(handled.sourceType) )
        => /\ \A t \in TypeSet : results[t] = ErrorMarker
           /\ currentValues = Null

\* a text with a letter outside every radix was handled as hexadecimal, one
\* with the digit 9 as binary, and the results show the error marker
C18_Witness ==
    /\ handled \in { [ sourceType |-> "hexadecimal", value |-> << "F", "g" >> ],
                     [ sourceType |-> "binary", value |-> << "1", "9", " " >> ] }
    /\ \A t \in TypeSet : results[t] = ErrorMarker

\* the digit values of a text of digits
DigitValues(s) == [ k \in 1..Len(s) |-> DigitValue(s[k]) ]

\* the four result fields show the renderings of one and the same integer
SameInteger ==
    /\ \A t \in TypeSet :
           results[t] # << >> /\ \A k \in 1..Len(results[t]) : results[t][k] \in LegalChars(t)
    /\ \A t \in TypeSet :
           results[t] = Rendering(MathInt(DigitValues(results["binary"]), 2), Radix(t))

\* C19: in every state of the page the four result fields are all the
\* placeholder '-', or all 'Error', or the renderings of one and the same
\* integer
C19_NoPartialResults ==
    \/ \A t \in TypeSet : results[t] = Placeholder
    \/ \A t \in TypeSet : results[t] = ErrorMarker
    \/ SameInteger

\* C20: after handleInput got an empty or whitespace-only text, all four
\* result fields show the placeholder '-' and none is marked as an error
C20_EmptyInputClears ==
    ( handled # NoCall /\ \A k \in 1..Len(handled.value) : handled.value[k] \in WhiteSpace )
        => /\ \A t \in TypeSet : results[t] = Placeholder
           /\ ~ errorClass

\* a whitespace-only text was handled for the binary field while the
\* decimal field still holds a number, and the results show the placeholder
C20_Witness ==
    /\ handled = [ sourceType |-> "binary", value |-> << " " >> ]
    /\ inputs["decimal"] = << "4", "9", "3" >>
    /\ \A t \in TypeSet : results[t] = Placeholder

\* C21 as stated: after handleInput got an empty text, every result field
\* shows the error marker 'Error', as after an illegal character
C21_EmptyInputShowsError ==
    ( handled # NoCall /\ Trim(handled.value) = << >> )
        => \A t \in TypeSet : results[t] = ErrorMarker

\* C21: after handleInput got an empty text, no result field shows the
\* error marker: every one shows the placeholder '-', and there are no
\* stored results
C21_EmptyInputIsNoError ==
    ( handled # NoCall /\ Trim(handled.value) = << >> )
        => /\ \A t \in TypeSet : results[t] # ErrorMarker /\ results[t] = Placeholder
           /\ currentValues = Null

\* the decimal field was emptied while the binary field still holds a text
\* with an illegal character, and the results show the placeholder
C21_Witness ==
    /\ handled = [ sourceType |-> "decimal", value |-> << >> ]
    /\ inputs["binary"] = << "1", "2" >>
    /\ \A t \in TypeSet : results[t] = Placeholder

\* C22: handleInput is never called with a text that holds a character
\* outside the alphabet of its field, in either case
C22_IllegalNeverHandled ==
    handled # NoCall =>
        \A k \in 1..Len(handled.value) :
            ToUpperCase(handled.value)[k] \in LegalChars(handled.sourceType)

\* everything is cleared: the input fields are empty and unmarked, the
\* result fields show the placeholder and are unmarked, nothing is stored
AllCleared ==
    /\ \A t \in TypeSet : inputs[t] = << >> /\ results[t] = Placeholder
    /\ inputErrors = {}
    /\ ~ errorClass
    /\ currentValues = Null

\* C23: when clearAll has run, from whatever state, all four input fields
\* are empty, all four result fields show the placeholder '-', no field
\* carries an error indication and there are no stored results to copy
C23_ClearAllResets == called = "clearAll" => AllCleared

\* clearAll has run after results had been copied
C23_Witness ==
    /\ called = "clearAll"
    /\ converter = "created"
    /\ notification = "Results copied to clipboard!"
    /\ AllCleared

\* C24: when copyResults has run with results present, the text it handed
\* to the clipboard is the four lines 'Binary: <b>', 'Octal: <o>',
\* 'Decimal: <d>', 'Hexadecimal: <h>' in that order, joined by newlines,
\* where b, o, d, h are the texts the four result fields show
C24_CopiesDisplayedLines ==
    ( called = "copyResults" /\ currentValues # Null )
        => writeText = << "Binary: " >> \o results["binary"]
                           \o << "\n" >> \o << "Octal: " >> \o results["octal"]
                           \o << "\n" >> \o << "Decimal: " >> \o results["decimal"]
                           \o << "\n" >> \o << "Hexadecimal: " >> \o results["hexadecimal"]

\* the results of binary 1010 have been copied
C24_Witness ==
    /\ called = "copyResults"
    /\ notification = "Results copied to clipboard!"
    /\ writeText = << "Binary: ", "1", "0", "1", "0", "\n", "Octal: ", "1", "2", "\n",
                      "Decimal: ", "1", "0", "\n", "Hexadecimal: ", "A" >>

C26_KeyboardShortcuts ==
    keydown # NoKey =>
        /\ ( /\ converter = "created"
             /\ keydown.key = "Escape" \/ (keydown.modifier /\ keydown.key = "k") )
               => called = "clearAll" /\ AllCleared
        /\ called = "copyResults"
               <=> /\ converter = "created"
                   /\ keydown.modifier /\ keydown.key = "c" /\ ~ keydown.inInput
        /\ converter # "created"
               => /\ called = "other"
                  /\ AllCleared
                  /\ notification = "" /\ writeText = NoText /\ ~ copyThrew

\* Ctrl/Cmd+K was pressed after results had been copied, and all is cleared
C26_Witness ==
    /\ keydown = [ key |-> "k", modifier |-> TRUE, inInput |-> TRUE, prevented |-> TRUE ]
    /\ converter = "created"
    /\ notification = "Results copied to clipboard!"
    /\ called = "clearAll"
    /\ AllCleared

\* C27: the eviction pass started by a cache write lists the keys of the
\* dynamic partition only after the cache.put of that write has settled
C27_KeysListedAfterPut ==
    \A i \in Slots :
        h[i].lpc = "check" => h[i].putpc \in { "done", "failed" }

C29_LoopStopsWithinMax ==
    [][ \A i \in Slots :
          /\ ( h[i].lpc = "check" /\ h'[i].lpc \in { "done", "threw" } )
             => ( Len(h[i].lkeys) <= MAX_DYNAMIC_CACHE_SIZE /\ store' = store )
          /\ ( h[i].lpc = "delete" /\ h'[i] # h[i] /\ Len(Keys(Dynamic)) = Len(h[i].lkeys) )
             => Len(store'[DYNAMIC_CACHE_NAME]) = Len(Dynamic) - 1
      ]_vars

\* C30 as stated: when the precache has failed, skipWaiting is never called
C30_NoSkipWaitingAfterFailedPrecache ==
    precache = "failed" => ~ skipWaitingCalled

\* C30: the install handler calls skipWaiting only after cache.addAll has
\* succeeded; when the precache has failed, the install handler does not
\* call it, and a call of skipWaiting is then the message listener's, on a
\* SKIP_WAITING message
C30_InstallSkipsWaitingAfterPrecache ==
    [][ /\ ( ipc = "skipWaiting" /\ ipc' # ipc ) => ( precache = "ok" /\ skipWaitingCalled' )
        /\ ( precache' = "failed" ) => ipc' \notin { "skipWaiting" }
        /\ ( precache = "failed" /\ ~ skipWaitingCalled /\ skipWaitingCalled' )
           => ( /\ msgs' # msgs
                /\ msgs'[Len(msgs')].type = "SKIP_WAITING"
                /\ ipc' = ipc )
      ]_vars

\* the precache has failed, the install handler has finished without
\* calling skipWaiting, and a SKIP_WAITING message has then called it
C30_Witness ==
    /\ precache = "failed"
    /\ ipc = "resolved"
    /\ skipWaitingCalled
    /\ Len(msgs) = 1
    /\ msgs[1].type = "SKIP_WAITING"

\* C31: when copyResults has run with results present, whether or not the
\* clipboard write succeeded, no error is left unhandled and the user is
\* shown 'Results copied to clipboard!' or 'Copy failed. Please copy
\* manually.'
C31_CopyEndsWithMessage ==
    ( called = "copyResults" /\ currentValues # Null ) =>
        /\ ~ copyThrew
        /\ notification \in { "Results copied to clipboard!",
                              "Copy failed. Please copy manually." }

OlderThanStatic ==
    { cacheList[k] : k \in { j \in 1..Len(cacheList) :
                               \E s \in (j + 1)..Len(cacheList) :
                                   cacheList[s] = STATIC_CACHE_NAME } }

C33_HandleInputKeepsInputs ==
    [][ /\ ( handled' # NoCall /\ handled' # handled )
           => /\ inputs'[handled'.sourceType] = handled'.value
              /\ \A u \in TypeSet \ { handled'.sourceType } : inputs'[u] = inputs[u]
        /\ ( pasteTimers' # pasteTimers /\ pasteTimers' \subseteq pasteTimers )
           => inputs' = inputs
      ]_vars

\* lower-case ff was handled: the results are upper-case, the hexadecimal
\* field still holds ff and the binary and decimal fields their own texts
C33_Witness ==
    /\ handled = [ sourceType |-> "hexadecimal", value |-> << "f", "f" >> ]
    /\ results["hexadecimal"] = << "F", "F" >>
    /\ inputs["hexadecimal"] = << "f", "f" >>
    /\ inputs["binary"] = << " ", "0", "0", "1", "1", "\t" >>
    /\ inputs["decimal"] = << "1", "e", "3" >>

\* the result fields display a successful conversion: none shows the
\* placeholder or the error marker and none is marked as an error
ConversionDisplayed ==
    /\ ~ errorClass
    /\ \A t \in TypeSet : results[t] # Placeholder /\ results[t] # ErrorMarker

\* C34: in every state this.currentValues is non-null exactly when the
\* result fields display a successful conversion, and it then holds the
\* four displayed texts; after an error or a clear it is null
C34_StoredValuesMatchDisplay ==
    /\ currentValues # Null <=> ConversionDisplayed
    /\ currentValues # Null =>
           /\ currentValues.binary = results["binary"]
           /\ currentValues.octal = results["octal"]
           /\ currentValues.decimal = results["decimal"]
           /\ currentValues.hexadecimal = results["hexadecimal"]
    /\ ( errorClass \/ called = "clearAll" ) => currentValues = Null

\* octal 755 is displayed as converted, after results had been copied
C34_Witness ==
    /\ handled = [ sourceType |-> "octal", value |-> << "7", "5", "5" >> ]
    /\ currentValues # Null
    /\ currentValues.decimal = << "4", "9", "3" >>
    /\ results["decimal"] = << "4", "9", "3" >>
    /\ results["hexadecimal"] = << "1", "E", "D" >>
    /\ notification = "Results copied to clipboard!"

\* C35: when copyResults has run while no successful conversion was
\* displayed, no text was handed to the clipboard, the message is 'No
\* results to copy' and no error was raised
C35_NothingCopiedWithoutResults ==
    ( called = "copyResults" /\ ~ ConversionDisplayed ) =>
        /\ writeText = NoText
        /\ notification = "No results to copy"
        /\ ~ copyThrew

\* copy after binary 12 was rejected, the octal field still holding 755
\* from an earlier successful conversion
C35_Witness ==
    /\ called = "copyResults"
    /\ handled = [ sourceType |-> "binary", value |-> << "1", "2" >> ]
    /\ inputs["octal"] = << "7", "5", "5" >>
    /\ errorClass
    /\ writeText = NoText
    /\ notification = "No results to copy"

\* C36: a message without data, without type or with a type the switch has
\* no case for never gets a reply and starts no clearAllCaches, and its
\* handling changes no cache partition and nothing of the worker's
\* lifecycle; a SKIP_WAITING message never gets a reply either and its
\* handling changes no cache partition
C36_OtherMessagesIgnored ==
    [][ \A k \in 1..Len(msgs') :
          msgs'[k].type \notin { "GET_VERSION", "CLEAR_CACHE" } =>
            /\ msgs'[k].replies = << >>
            /\ msgs'[k].cpc = "none"
            /\ k > Len(msgs) =>
                 /\ cacheList' = cacheList
                 /\ store' = store
                 /\ msgs'[k].type # "SKIP_WAITING" => lifecycleVars' = lifecycleVars
      ]_vars

\* a message without data was handled by the installed worker, whose static
\* partition is populated
C36_Witness ==
    \E k \in 1..Len(msgs) :
        /\ msgs[k].type = NoData
        /\ msgs[k].replies = << >>
        /\ swState = "installed"
        /\ Len(store[STATIC_CACHE_NAME]) = Len(STATIC_FILES)

\* the Number that parseInt gives for the text of the latest handleInput call
Parsed == ParseInt(ToUpperCase(Trim(handled.value)), Radix(handled.sourceType))

\* the latest handleInput call was given a text that its radix accepts
Validated ==
    /\ handled # NoCall
    /\ Trim(handled.value) # << >>
    /\ \A k \in 1..Len(Trim(handled.value)) :
           ToUpperCase(Trim(handled.value))[k] \in LegalChars(handled.sourceType)

\* updateResults has run: every result field shows a rendering, none is
\* marked, and the renderings are stored
Updated ==
    /\ ~ errorClass
    /\ currentValues # Null
    /\ \A t \in TypeSet : results[t] # ErrorMarker /\ results[t] # Placeholder

BitAt(x, w) == IF w >= 31 THEN 0 ELSE (x \div 2^w) % 2

\* the decimal argument of the latest toSignedBinary call lies in the range
\* of its bits argument: -2^(bits-1) <= decimal < 2^(bits-1)
SignedInRange ==
    /\ signed # NoSigned
    /\ IF signed.bits - 1 >= 31
       THEN TRUE
       ELSE /\ 0 - 2^(signed.bits - 1) <= signed.decimal
            /\ signed.decimal < 2^(signed.bits - 1)

\* C38: for a decimal argument in the range of the bits argument, the
\* result of toSignedBinary has exactly bits characters, each '0' or '1',
\* and they write decimal mod 2^bits: the bits of decimal when it is not
\* negative, and those of 2^bits - 1 - (|decimal| - 1) when it is
C38_TwosComplement ==
    SignedInRange =>
        /\ Len(signed.result) = signed.bits
        /\ \A k \in 1..Len(signed.result) :
             signed.result[k] =
                IF signed.decimal >= 0
                THEN ( IF BitAt(signed.decimal, signed.bits - k) = 1 THEN "1" ELSE "0" )
                ELSE ( IF BitAt((0 - signed.decimal) - 1, signed.bits - k) = 1
                       THEN "0" ELSE "1" )

\* toSignedBinary(-6, 4) has returned 1010
C38_Witness ==
    /\ SignedInRange
    /\ signed.decimal = 0 - 6
    /\ signed.bits = 4
    /\ signed.result = << "1", "0", "1", "0" >>

==============================================================================
